---- MODULE Spec2Model ----
(***************************************************************************)
(* State-machine model of the MDF 4.1 writer (MdfWriter) of mf4-rs and of  *)
(* the readers that consume its files (graph reader, Channel::values and   *)
(* the MdfIndex byte-range reader).                                        *)
(*                                                                         *)
(* The file is modelled as the sequence of extents the writer appended     *)
(* (zero padding, blocks, records), each with its absolute position and    *)
(* length in bytes, plus the current field values of every block.  All     *)
(* positions and lengths are the byte values the code computes.            *)
(***************************************************************************)
EXTENDS Integers, Sequences, FiniteSets, TLC

(* ---------------------------- bounds ----------------------------------- *)
MaxDG == 2
MaxCG == 2
MaxCN == 2
MaxWrites == 3
MaxBatch == 2
MaxStarts == 2
MaxOps == 8
MaxLinkCalls == 2

(* ------------------------ program constants ---------------------------- *)
MAX_DT_BLOCK_SIZE == 4194304
HeaderLen == 24
IdBlockLen == 64
HdBlockLen == 104
DgBlockLen == 64
CgBlockLen == 104
CnBlockLen == 160
HdFirstDgOffset == 24
DgNextOffset == 24
DgFirstCgOffset == 32
DgDataLinkOffset == 40
DgRecIdLenOffset == 56
CgNextOffset == 24
CgFirstCnOffset == 32
CgCyclesOffset == 80
CgSamplesBytesOffset == 96
CnNextOffset == 24
CnNameOffset == 40
BlockLenOffset == 8

(* ---------------------------- inputs ----------------------------------- *)
\* Byte gaps a caller may leave before a channel: with a 64-bit channel
\* behind BigGap two records fill a DT exactly, with a 16-bit channel behind
\* SmallGap four records do (and the record size is no multiple of 8).
BigGap == (MAX_DT_BLOCK_SIZE - HeaderLen) \div 2 - 8
SmallGap == (MAX_DT_BLOCK_SIZE - HeaderLen) \div 4 - 2
None == <<"none", 0>>

\* Ok(()) and the errors are <<kind, text, block id>>.
Ok == <<"ok", "", None>>

\* Channel descriptions a caller hands to add_channel (ChannelBlock fields
\* that the writer and the readers look at).
ChannelTemplates ==
  { [data_type |-> "UnsignedIntegerLE", bit_count |-> 16, gap |-> SmallGap,
     named |-> FALSE, channel_type |-> 0, sync_type |-> 0],
    [data_type |-> "UnsignedIntegerLE", bit_count |-> 64, gap |-> BigGap,
     named |-> TRUE, channel_type |-> 0, sync_type |-> 0] }

RecordIdLens == {0}

(* ---------------------------- helpers ---------------------------------- *)
Max(a, b) == IF a >= b THEN a ELSE b
Min(a, b) == IF a <= b THEN a ELSE b

RECURSIVE Pow2(_)
Pow2(n) == IF n = 0 THEN 1 ELSE 2 * Pow2(n - 1)

Last(s) == s[Len(s)]

VARIABLES
  file,             \* extents appended so far: [pos, len, kind, id, owner, fields]
  blk,              \* block start position -> current block contents
  offset,           \* MdfWriter.offset
  cursor,           \* position of the underlying file handle
  block_positions,  \* MdfWriter.block_positions
  open_dts,         \* MdfWriter.open_dts
  dt_counter,       \* MdfWriter.dt_counter
  patches,          \* every back-patch performed: [pos, width, eof]
  corrupt,          \* a write hit bytes the extents cannot describe
  dgs,              \* caller: ids of the data groups added, in order
  cgs,              \* caller: dg id -> ids of its channel groups, in order
  cns,              \* caller: cg id -> channels added, in order
  written,          \* caller: cg id -> records accepted since the last start
  closed,           \* caller: cg id -> history of the finished data blocks
  seq,              \* number of records handed to the writer so far
  starts,           \* number of start_data_block calls so far
  finalized,        \* finalize() was called
  ops,              \* number of successful writer calls before finalize
  link_calls,       \* number of direct update_block_link calls so far
  result,           \* outcome of the last call
  input,            \* arguments of the reader function under study
  iter,             \* state a reader iterator keeps between calls
  output            \* what the calls of that function returned, in order

writer_vars == <<file, blk, offset, cursor, block_positions, open_dts, dt_counter,
                 patches, corrupt, dgs, cgs, cns, written, closed, seq, starts,
                 finalized, ops, link_calls, result>>
fn_vars == <<input, iter, output>>
vars == <<writer_vars, fn_vars>>

(* ------------------------- file contents ------------------------------- *)
EndOf(f) == IF Len(f) = 0 THEN 0 ELSE Last(f).pos + Last(f).len

NoChannel == [channel_type |-> 0, sync_type |-> 0, data |-> 0, data_type |-> "none",
              bit_offset |-> 0, byte_offset |-> 0, bit_count |-> 0,
              name_len |-> 0]

EmptyFields == [x \in {} |-> [w |-> 0, v |-> 0]]
Field(width, value) == [w |-> width, v |-> value]

\* The snapshot of the writer the operations below transform.  `ret` is the
\* value returned by the last helper and `err` the error it returned.
Writer ==
  [file |-> file, blk |-> blk, offset |-> offset, cursor |-> cursor,
   block_positions |-> block_positions, open_dts |-> open_dts,
   dt_counter |-> dt_counter, patches |-> patches, corrupt |-> corrupt,
   ret |-> 0, err |-> Ok]

Fail(w, e) == [w EXCEPT !.err = e]

\* self.file.write_all(bytes): the bytes land at the handle's position.
\* `owner` is the start of the block the bytes were written for.
WriteAll(w, len, kind, id, owner, fields) ==
  IF len = 0 THEN w
  ELSE [w EXCEPT
          !.file = Append(@, [pos |-> w.cursor, len |-> len, kind |-> kind,
                              id |-> id, owner |-> owner, fields |-> fields]),
          !.cursor = @ + len,
          !.corrupt = @ \/ (w.cursor # EndOf(w.file))]

\* Padding computed as the distance from the previous boundary.
AlignFromBelow(off) == off % 8

\* Padding needed to bring `off` to the next 8-byte boundary.
Align(off) == (8 - (off % 8)) % 8

\* A serialized block handed to write_block: its bytes and parsed content.
BlockBytes(kind, len, links_nr, f, ch) ==
  [kind |-> kind, block_len |-> len, size |-> len, links_nr |-> links_nr,
   f |-> f, ch |-> ch]

WriteBlock(w, b, id) ==
  LET align == Align(w.offset)
      w1 == IF align # 0
            THEN [WriteAll(w, align, "pad", <<"pad", 0>>, 0, <<>>)
                    EXCEPT !.offset = @ + align]
            ELSE w
      at == w1.cursor
      w2 == WriteAll(w1, b.size, "block", id, at, <<>>)
  IN [w2 EXCEPT !.blk = (at :> b) @@ @,
                !.ret = w1.offset,
                !.offset = @ + b.size]

WriteBlockWithId(w, b, id) ==
  LET w1 == WriteBlock(w, b, id)
  IN [w1 EXCEPT !.block_positions = (id :> w1.ret) @@ @]

\* The block whose emitted bytes contain position p (0 when there is none).
BlockAt(w, p) ==
  LET c == {b \in DOMAIN w.blk : b <= p /\ p < b + w.blk[b].size}
  IN IF c = {} THEN 0 ELSE CHOOSE b \in c : TRUE

HasBlockAt(w, p) == \E b \in DOMAIN w.blk : b <= p /\ p < b + w.blk[b].size

\* Overwrite `width` bytes at the handle's position with `value`.
Overwrite(w, width, value) ==
  LET p == w.cursor
      b == BlockAt(w, p)
      rel == p - b
      w1 == [w EXCEPT !.cursor = @ + width]
  IN IF ~HasBlockAt(w, p) THEN [w1 EXCEPT !.corrupt = TRUE]
     ELSE IF rel = BlockLenOffset /\ width = 8 /\ w.blk[b].kind # "ID"
       THEN [w1 EXCEPT !.blk[b].block_len = value]
     ELSE IF rel \in DOMAIN w.blk[b].f /\ w.blk[b].f[rel].w = width
       THEN [w1 EXCEPT !.blk[b].f[rel].v = value]
     ELSE [w1 EXCEPT !.corrupt = TRUE]

\* seek(offset); write, and no seek back to the append position.
PatchBytesStaying(w, off, width, value) ==
  LET w1 == [w EXCEPT !.cursor = off,
                      !.patches = @ \cup {[pos |-> off, width |-> width,
                                           eof |-> w.offset]}]
  IN Overwrite(w1, width, value)

\* seek(offset); write; seek(current_pos)
PatchBytes(w, off, width, value) ==
  LET current_pos == w.offset
      w1 == [w EXCEPT !.cursor = off,
                      !.patches = @ \cup {[pos |-> off, width |-> width,
                                           eof |-> w.offset]}]
      w2 == Overwrite(w1, width, value)
  IN [w2 EXCEPT !.cursor = current_pos]

UpdateLink(w, off, address) == PatchBytes(w, off, 8, address)
UpdateU64(w, off, value) == PatchBytes(w, off, 8, value)
\* (values of the model stay below 2^31, so the u32 cast keeps them)
UpdateU32(w, off, value) == PatchBytes(w, off, 4, value)
UpdateU8(w, off, value) == PatchBytes(w, off, 1, value % 256)

Registered(w, id) == id \in DOMAIN w.block_positions

LinkPos(source_pos, link_offset) == source_pos + link_offset

\* update_block_link that patches before it has looked up the target.
UpdateBlockLinkWriteFirst(w, source_id, link_offset, target_id) ==
  IF ~Registered(w, source_id) THEN Fail(w, <<"BlockLinkError", "Source", source_id>>)
  ELSE LET w1 == UpdateLink(w, LinkPos(w.block_positions[source_id], link_offset),
                            IF Registered(w, target_id)
                            THEN w.block_positions[target_id] ELSE 0)
       IN IF ~Registered(w, target_id)
          THEN Fail(w1, <<"BlockLinkError", "Target", target_id>>)
          ELSE w1

\* update_block_link that takes the append offset for the source position.
UpdateBlockLinkAtOffset(w, source_id, link_offset, target_id) ==
  IF ~Registered(w, source_id) THEN Fail(w, <<"BlockLinkError", "Source", source_id>>)
  ELSE IF ~Registered(w, target_id) THEN Fail(w, <<"BlockLinkError", "Target", target_id>>)
  ELSE UpdateLink(w, LinkPos(w.offset, link_offset),
                  w.block_positions[target_id])

UpdateBlockLink(w, source_id, link_offset, target_id) ==
  IF ~Registered(w, source_id) THEN Fail(w, <<"BlockLinkError", "Source", source_id>>)
  ELSE IF ~Registered(w, target_id) THEN Fail(w, <<"BlockLinkError", "Target", target_id>>)
  ELSE UpdateLink(w, LinkPos(w.block_positions[source_id], link_offset),
                  w.block_positions[target_id])

UpdateBlockU32(w, block_id, field_offset, value) ==
  IF ~Registered(w, block_id) THEN Fail(w, <<"BlockLinkError", "Block", block_id>>)
  ELSE UpdateU32(w, w.block_positions[block_id] + field_offset, value)

UpdateBlockU8(w, block_id, field_offset, value) ==
  IF ~Registered(w, block_id) THEN Fail(w, <<"BlockLinkError", "Block", block_id>>)
  ELSE UpdateU8(w, w.block_positions[block_id] + field_offset, value)

UpdateBlockU64(w, block_id, field_offset, value) ==
  IF ~Registered(w, block_id) THEN Fail(w, <<"BlockLinkError", "Block", block_id>>)
  ELSE UpdateU64(w, w.block_positions[block_id] + field_offset, value)

\* Number of registered ids with the given prefix ("dg_", "cg_", ...).
CountIds(w, prefix) == Cardinality({k \in DOMAIN w.block_positions : k[1] = prefix})

\* The `?` operator: run the next step, on the writer as the step before
\* left it, only when no error was returned.
Then(w, Op(_)) ==
  CHOOSE r \in {IF x.err = Ok THEN Op(x) ELSE x : x \in {w}} : TRUE

IdBlockId == <<"id_block", 0>>
HdBlockId == <<"hd_block", 0>>

Links(offs) == [o \in offs |-> Field(8, 0)]

IdBlock == BlockBytes("ID", IdBlockLen, 0, EmptyFields, NoChannel)
HdBlock == BlockBytes("##HD", HdBlockLen, 6,
                      Links({24, 32, 40, 48, 56, 64}), NoChannel)
DgBlock == BlockBytes("##DG", DgBlockLen, 4,
                      Links({24, 32, 40, 48}) @@ (56 :> Field(1, 0)), NoChannel)
CgBlock == BlockBytes("##CG", CgBlockLen, 6,
                      Links({24, 32, 40, 48, 56, 64})
                        @@ (72 :> Field(8, 0)) @@ (80 :> Field(8, 0))
                        @@ (96 :> Field(4, 0)) @@ (100 :> Field(4, 0)),
                      NoChannel)
CnBlock(ch) == BlockBytes("##CN", CnBlockLen, 8,
                          Links({24, 32, 40, 48, 56, 64, 72, 80}), ch)
DtHeader == BlockBytes("##DT", HeaderLen, 0, EmptyFields, NoChannel)

\* TextBlock::new(name).to_bytes(): header, text, NUL, padded to 8 bytes.
TxBlockLen(name_len) == HeaderLen + ((name_len + 1 + 7) \div 8) * 8
TxBlock(name_len) ==
  BlockBytes("##TX", TxBlockLen(name_len), 0, EmptyFields, NoChannel)

\* DataListBlock: header, `next` link, one link per fragment.
DlBlock(positions) ==
  LET links_nr == Len(positions) + 1
  IN BlockBytes("##DL", HeaderLen + links_nr * 8, links_nr,
                (24 :> Field(8, 0))
                  @@ [o \in {32 + 8 * (i - 1) : i \in 1..Len(positions)}
                        |-> Field(8, positions[(o - 32) \div 8 + 1])],
                NoChannel)

init_mdf_file(w) ==
  LET w1 == WriteBlockWithId(w, IdBlock, IdBlockId)
  IN WriteBlockWithId(w1, HdBlock, HdBlockId)

add_data_group(w, prev_dg_id) ==
  LET dg_id == <<"dg", CountIds(w, "dg")>>
      w1 == WriteBlockWithId(w, DgBlock, dg_id)
      w2 == IF prev_dg_id = None
            THEN UpdateBlockLink(w1, HdBlockId, HdFirstDgOffset, dg_id)
            ELSE UpdateBlockLink(w1, prev_dg_id, DgNextOffset, dg_id)
  IN [w2 EXCEPT !.ret = dg_id]

add_channel_group(w, dg_id, prev_cg_id) ==
  LET cg_id == <<"cg", CountIds(w, "cg")>>
      w1 == WriteBlockWithId(w, CgBlock, cg_id)
      w2 == IF prev_cg_id = None
            THEN UpdateBlockLink(w1, dg_id, DgFirstCgOffset, cg_id)
            ELSE UpdateBlockLink(w1, prev_cg_id, CgNextOffset, cg_id)
  IN [w2 EXCEPT !.ret = cg_id]

\* add_channel that always links the new channel from the channel group.
add_channel_ignoring_prev(w, cg_id, prev_cn_id, channel) ==
  LET cn_id == <<"cn", CountIds(w, "cn")>>
      w1 == WriteBlockWithId(w, CnBlock(channel), cn_id)
      cn_pos == w1.ret
      w2 == IF channel.name_len # 0
            THEN LET wt == WriteBlockWithId(w1, TxBlock(channel.name_len),
                                            <<"tx_name_cn", cn_id[2]>>)
                 IN UpdateLink(wt, cn_pos + CnNameOffset, wt.ret)
            ELSE w1
      w3 == UpdateBlockLink(w2, cg_id, CgFirstCnOffset, cn_id)
  IN [w3 EXCEPT !.ret = cn_id]

add_channel(w, cg_id, prev_cn_id, channel) ==
  LET cn_id == <<"cn", CountIds(w, "cn")>>
      w1 == WriteBlockWithId(w, CnBlock(channel), cn_id)
      cn_pos == w1.ret
      w2 == IF channel.name_len # 0
            THEN LET wt == WriteBlockWithId(w1, TxBlock(channel.name_len),
                                            <<"tx_name_cn", cn_id[2]>>)
                 IN UpdateLink(wt, cn_pos + CnNameOffset, wt.ret)
            ELSE w1
      w3 == IF prev_cn_id = None
            THEN UpdateBlockLink(w2, cg_id, CgFirstCnOffset, cn_id)
            ELSE UpdateBlockLink(w2, prev_cn_id, CnNextOffset, cn_id)
  IN [w3 EXCEPT !.ret = cn_id]

(* --------------------------- data path --------------------------------- *)
SetMax(S) == IF S = {} THEN 0 ELSE CHOOSE m \in S : \A x \in S : x <= m

\* byte_offset + ceil((bit_offset + bit_count) / 8)
ByteEnd(ch) == ch.byte_offset + ((ch.bit_offset + ch.bit_count + 7) \div 8)

RecordBytes(channels) == SetMax({ByteEnd(channels[i]) : i \in 1..Len(channels)})

EncoderFor(ch, record_id_len) ==
  LET off == record_id_len + ch.byte_offset
      bytes == (ch.bit_count + 7) \div 8
  IN CASE ch.data_type = "UnsignedIntegerLE" -> [kind |-> "UInt", offset |-> off, bytes |-> bytes]
       [] ch.data_type = "SignedIntegerLE" -> [kind |-> "Int", offset |-> off, bytes |-> bytes]
       [] ch.data_type = "FloatLE" ->
            IF ch.bit_count = 32 THEN [kind |-> "F32", offset |-> off, bytes |-> 4]
            ELSE [kind |-> "F64", offset |-> off, bytes |-> 8]
       [] ch.data_type \in {"ByteArray", "MimeSample", "MimeStream"} ->
            [kind |-> "Bytes", offset |-> off, bytes |-> bytes]
       [] OTHER -> [kind |-> "Skip", offset |-> off, bytes |-> 0]

\* The low `bytes` bytes of v (values of the model stay below 2^31).
Trunc(v, bytes) == IF bytes >= 4 THEN v ELSE v % Pow2(8 * bytes)

\* ChannelEncoder::encode: the bytes an encoder puts into the record buffer,
\* as <<[off, bytes, val]>>, or nothing when encoder and value do not match.
Encode(enc, value) ==
  CASE enc.kind = "UInt" /\ value.variant = "UnsignedInteger" ->
         <<[off |-> enc.offset, bytes |-> enc.bytes, val |-> Trunc(value.v, enc.bytes)]>>
    [] enc.kind = "Int" /\ value.variant = "SignedInteger" ->
         <<[off |-> enc.offset, bytes |-> enc.bytes, val |-> Trunc(value.v, enc.bytes)]>>
    [] enc.kind = "Bytes" /\ value.variant \in {"ByteArray", "MimeSample", "MimeStream"} ->
         <<[off |-> enc.offset, bytes |-> enc.bytes, val |-> value.v]>>
    \* an integer a reader decoded from bytes that were no channel value:
    \* the copy keeps the bytes, written here as -1 - (their position)
    [] enc.kind = "UInt" /\ value.variant = "Raw" ->
         <<[off |-> enc.offset, bytes |-> enc.bytes, val |-> -1 - value.v]>>
    [] OTHER -> <<>>

\* ChannelEncoder::encode_u64
EncodeU64(enc, v) ==
  IF enc.kind = "UInt"
  THEN <<[off |-> enc.offset, bytes |-> enc.bytes, val |-> Trunc(v, enc.bytes)]>>
  ELSE <<>>

RECURSIVE EncodeValues(_, _, _)
EncodeValues(encoders, values, i) ==
  IF i > Len(encoders) \/ i > Len(values) THEN <<>>
  ELSE Encode(encoders[i], values[i]) \o EncodeValues(encoders, values, i + 1)

RECURSIVE EncodeValuesU64(_, _, _)
EncodeValuesU64(encoders, values, i) ==
  IF i > Len(encoders) \/ i > Len(values) THEN <<>>
  ELSE EncodeU64(encoders[i], values[i]) \o EncodeValuesU64(encoders, values, i + 1)

IsOpen(w, cg_id) == cg_id \in DOMAIN w.open_dts

NoOpenDt == <<"BlockSerializationError", "no open DT block for this channel group", None>>
CountMismatch == <<"BlockSerializationError", "value count mismatch", None>>
NotUnsigned == <<"BlockSerializationError", "channel types not unsigned", None>>
AlreadyOpen == <<"BlockSerializationError", "data block already open for this channel group", None>>

\* start_data_block without the test for an open data block.
start_data_block_unguarded(w, dg_id, cg_id, record_id_len, channels) ==
    LET record_bytes == RecordBytes(channels)
        record_size == record_bytes + record_id_len
        dt_id == <<"dt", w.dt_counter>>
        w1 == WriteBlockWithId([w EXCEPT !.dt_counter = @ + 1], DtHeader, dt_id)
        dt_pos == w1.ret
        w2 == UpdateBlockLink(w1, dg_id, DgDataLinkOffset, dt_id)
        w3 == Then(w2, LAMBDA x : UpdateBlockU8(x, dg_id, DgRecIdLenOffset, record_id_len))
        w4 == Then(w3, LAMBDA x : UpdateBlockU32(x, cg_id, CgSamplesBytesOffset, record_bytes))
        odb == [dg_id |-> dg_id, dt_id |-> dt_id, start_pos |-> dt_pos,
                record_size |-> record_size, record_count |-> 0,
                total_record_count |-> 0, channels |-> channels,
                dt_ids |-> <<dt_id>>, dt_positions |-> <<dt_pos>>,
                dt_sizes |-> <<>>,
                encoders |-> [i \in 1..Len(channels) |->
                                EncoderFor(channels[i], record_id_len)]]
    IN Then(w4, LAMBDA x : [x EXCEPT !.open_dts = (cg_id :> odb) @@ @])

start_data_block(w, dg_id, cg_id, record_id_len, channels) ==
  IF IsOpen(w, cg_id) THEN Fail(w, AlreadyOpen)
  ELSE
    LET record_bytes == RecordBytes(channels)
        record_size == record_bytes + record_id_len
        dt_id == <<"dt", w.dt_counter>>
        w1 == WriteBlockWithId([w EXCEPT !.dt_counter = @ + 1], DtHeader, dt_id)
        dt_pos == w1.ret
        w2 == UpdateBlockLink(w1, dg_id, DgDataLinkOffset, dt_id)
        w3 == Then(w2, LAMBDA x : UpdateBlockU8(x, dg_id, DgRecIdLenOffset, record_id_len))
        w4 == Then(w3, LAMBDA x : UpdateBlockU32(x, cg_id, CgSamplesBytesOffset, record_bytes))
        odb == [dg_id |-> dg_id, dt_id |-> dt_id, start_pos |-> dt_pos,
                record_size |-> record_size, record_count |-> 0,
                total_record_count |-> 0, channels |-> channels,
                dt_ids |-> <<dt_id>>, dt_positions |-> <<dt_pos>>,
                dt_sizes |-> <<>>,
                encoders |-> [i \in 1..Len(channels) |->
                                EncoderFor(channels[i], record_id_len)]]
    IN Then(w4, LAMBDA x : [x EXCEPT !.open_dts = (cg_id :> odb) @@ @])

\* 24 + record_size * (record_count + 1) > MAX_DT_BLOCK_SIZE
PotentialNewBlock(dt) ==
  HeaderLen + dt.record_size * (dt.record_count + 1) > MAX_DT_BLOCK_SIZE

\* Rollover that puts the new fragment in front of the fragment list.
RollOverPrepending(w, cg_id) ==
  LET dt == w.open_dts[cg_id]
      size == HeaderLen + dt.record_size * dt.record_count
      w1 == UpdateLink(w, dt.start_pos + BlockLenOffset, size)
      new_dt_id == <<"dt", w.dt_counter>>
      w2 == WriteBlockWithId([w1 EXCEPT !.dt_counter = @ + 1], DtHeader, new_dt_id)
      new_dt_pos == w2.ret
  IN [w2 EXCEPT !.open_dts[cg_id] =
        [dt EXCEPT !.total_record_count = @ + dt.record_count,
                   !.dt_sizes = Append(@, size),
                   !.dt_id = new_dt_id,
                   !.start_pos = new_dt_pos,
                   !.record_count = 0,
                   !.dt_ids = <<new_dt_id>> \o @,
                   !.dt_positions = <<new_dt_pos>> \o @]]

\* Close the current DT of cg_id and open the next one.
RollOver(w, cg_id) ==
  LET dt == w.open_dts[cg_id]
      size == HeaderLen + dt.record_size * dt.record_count
      w1 == UpdateLink(w, dt.start_pos + BlockLenOffset, size)
      new_dt_id == <<"dt", w.dt_counter>>
      w2 == WriteBlockWithId([w1 EXCEPT !.dt_counter = @ + 1], DtHeader, new_dt_id)
      new_dt_pos == w2.ret
  IN [w2 EXCEPT !.open_dts[cg_id] =
        [dt EXCEPT !.total_record_count = @ + dt.record_count,
                   !.dt_sizes = Append(@, size),
                   !.dt_id = new_dt_id,
                   !.start_pos = new_dt_pos,
                   !.record_count = 0,
                   !.dt_ids = Append(@, new_dt_id),
                   !.dt_positions = Append(@, new_dt_pos)]]

\* write_all(record_buf); record_count += 1; offset += len
AppendRecord(w, cg_id, tag, fields) ==
  LET dt == w.open_dts[cg_id]
      w1 == WriteAll(w, dt.record_size, "rec", tag, dt.start_pos, fields)
  IN [w1 EXCEPT !.open_dts[cg_id].record_count = @ + 1,
                !.offset = @ + dt.record_size]

write_record(w, cg_id, tag, values) ==
  IF ~IsOpen(w, cg_id) THEN Fail(w, NoOpenDt)
  ELSE IF Len(values) # Len(w.open_dts[cg_id].channels) THEN Fail(w, CountMismatch)
  ELSE
    LET w1 == IF PotentialNewBlock(w.open_dts[cg_id]) THEN RollOver(w, cg_id) ELSE w
    IN AppendRecord(w1, cg_id, tag,
                    EncodeValues(w1.open_dts[cg_id].encoders, values, 1))

AllUInt(dt) == \A i \in 1..Len(dt.encoders) : dt.encoders[i].kind = "UInt"

write_record_u64(w, cg_id, tag, values) ==
  IF ~IsOpen(w, cg_id) THEN Fail(w, NoOpenDt)
  ELSE IF Len(values) # Len(w.open_dts[cg_id].encoders) THEN Fail(w, CountMismatch)
  ELSE IF ~AllUInt(w.open_dts[cg_id]) THEN Fail(w, NotUnsigned)
  ELSE AppendRecord(w, cg_id, tag,
                    EncodeValuesU64(w.open_dts[cg_id].encoders, values, 1))

\* write_all(&buffer); offset += buffer.len()
RECURSIVE FlushFrom(_, _, _)
FlushFrom(w, buffer, i) ==
  IF i > Len(buffer) THEN w
  ELSE FlushFrom([WriteAll(w, buffer[i].len, "rec", buffer[i].tag,
                               buffer[i].owner, buffer[i].fields)
                    EXCEPT !.offset = @ + buffer[i].len],
                 buffer, i + 1)
Flush(w, buffer) == FlushFrom(w, buffer, 1)

\* The loop of write_records (u64 = FALSE) and write_records_u64 (u64 = TRUE)
\* from record i on; `buffer` holds the encoded records not yet written.
RECURSIVE WriteRecordsLoop(_, _, _, _, _, _)
WriteRecordsLoop(w, cg_id, records, i, buffer, u64) ==
  IF i > Len(records) THEN Flush(w, buffer)
  ELSE
    LET rec == records[i]
        dt == w.open_dts[cg_id]
    IN IF Len(rec.values) # Len(dt.channels) THEN Fail(w, CountMismatch)
       ELSE IF u64 /\ ~AllUInt(dt) THEN Fail(w, NotUnsigned)
       ELSE
         LET w1 == IF PotentialNewBlock(dt)
                   THEN RollOver(Flush(w, buffer), cg_id)
                   ELSE w
             buf1 == IF PotentialNewBlock(dt) THEN <<>> ELSE buffer
             dt1 == w1.open_dts[cg_id]
             fields == IF u64 THEN EncodeValuesU64(dt1.encoders, rec.values, 1)
                       ELSE EncodeValues(dt1.encoders, rec.values, 1)
             w2 == [w1 EXCEPT !.open_dts[cg_id].record_count = @ + 1]
         IN WriteRecordsLoop(w2, cg_id, records, i + 1,
                             Append(buf1, [len |-> dt1.record_size,
                                           tag |-> rec.tag,
                                           owner |-> dt1.start_pos,
                                           fields |-> fields]),
                             u64)

write_records(w, cg_id, records) ==
  IF ~IsOpen(w, cg_id) THEN Fail(w, NoOpenDt)
  ELSE WriteRecordsLoop(w, cg_id, records, 1, <<>>, FALSE)

write_records_u64(w, cg_id, records) ==
  IF ~IsOpen(w, cg_id) THEN Fail(w, NoOpenDt)
  ELSE WriteRecordsLoop(w, cg_id, records, 1, <<>>, TRUE)

\* finish_data_block that leaves the entry of the group in open_dts.
finish_data_block_keeping_open(w, cg_id) ==
  IF ~IsOpen(w, cg_id) THEN Fail(w, NoOpenDt)
  ELSE
    LET dt0 == w.open_dts[cg_id]
        w0 == w
        size == HeaderLen + dt0.record_size * dt0.record_count
        w1 == UpdateLink(w0, dt0.start_pos + BlockLenOffset, size)
        total == dt0.total_record_count + dt0.record_count
        w2 == UpdateBlockU64(w1, cg_id, CgCyclesOffset, total)
    IN IF Len(dt0.dt_ids) > 1
       THEN Then(w2, LAMBDA x :
              LET dl_id == <<"dl", CountIds(x, "dl")>>
                  x1 == WriteBlockWithId(x, DlBlock(dt0.dt_positions), dl_id)
              IN UpdateBlockLink(x1, dt0.dg_id, DgDataLinkOffset, dl_id))
       ELSE w2

finish_data_block(w, cg_id) ==
  IF ~IsOpen(w, cg_id) THEN Fail(w, NoOpenDt)
  ELSE
    LET dt0 == w.open_dts[cg_id]
        w0 == [w EXCEPT !.open_dts = [k \in DOMAIN @ \ {cg_id} |-> @[k]]]
        size == HeaderLen + dt0.record_size * dt0.record_count
        w1 == UpdateLink(w0, dt0.start_pos + BlockLenOffset, size)
        total == dt0.total_record_count + dt0.record_count
        w2 == UpdateBlockU64(w1, cg_id, CgCyclesOffset, total)
    IN IF Len(dt0.dt_ids) > 1
       THEN Then(w2, LAMBDA x :
              LET dl_id == <<"dl", CountIds(x, "dl")>>
                  x1 == WriteBlockWithId(x, DlBlock(dt0.dt_positions), dl_id)
              IN UpdateBlockLink(x1, dt0.dg_id, DgDataLinkOffset, dl_id))
       ELSE w2

(* ---------------------------- the caller ------------------------------- *)
AllCgs == UNION {{cgs[d][i] : i \in 1..Len(cgs[d])} : d \in DOMAIN cgs}
ParentOf(cg) == CHOOSE d \in DOMAIN cgs : \E i \in 1..Len(cgs[d]) : cgs[d][i] = cg
ChannelsOf(cg) == [i \in 1..Len(cns[cg]) |-> cns[cg][i].ch]
NumChannels == Cardinality({k \in DOMAIN block_positions : k[1] = "cn"})

PrevOf(s) == IF Len(s) = 0 THEN None ELSE Last(s)

\* The ChannelBlock a caller builds from a template: the channel is laid out
\* behind the channels the group already has.
ChannelFrom(cg, t) ==
  [channel_type |-> t.channel_type, sync_type |-> t.sync_type,
   data |-> 0, data_type |-> t.data_type,
   bit_offset |-> 0,
   byte_offset |-> RecordBytes(ChannelsOf(cg)) + t.gap,
   bit_count |-> t.bit_count,
   name_len |-> IF t.named THEN 4 ELSE 0]

\* The value the caller writes to channel k of its n-th record.
ValueFor(ch, n, k) ==
  [variant |-> IF ch.data_type = "ByteArray" THEN "ByteArray" ELSE "UnsignedInteger",
   v |-> 10 * n + k]

RecordFor(cg, n) ==
  [tag |-> <<"rec", n>>,
   values |-> [k \in 1..Len(cns[cg]) |-> ValueFor(cns[cg][k].ch, n, k)]]

RecordU64For(cg, n) ==
  [tag |-> <<"rec", n>>, values |-> [k \in 1..Len(cns[cg]) |-> 10 * n + k]]

Commit(w) ==
  /\ file' = w.file
  /\ blk' = w.blk
  /\ offset' = w.offset
  /\ cursor' = w.cursor
  /\ block_positions' = w.block_positions
  /\ open_dts' = w.open_dts
  /\ dt_counter' = w.dt_counter
  /\ patches' = w.patches
  /\ corrupt' = w.corrupt
  /\ result' = w.err
  /\ ops < MaxOps
  /\ ops' = IF w.err = Ok THEN ops + 1 ELSE ops
  /\ UNCHANGED fn_vars

WriterInit ==
  /\ file = <<>>
  /\ blk = <<>>
  /\ offset = 0
  /\ cursor = 0
  /\ block_positions = <<>>
  /\ open_dts = <<>>
  /\ dt_counter = 0
  /\ patches = {}
  /\ corrupt = FALSE
  /\ dgs = <<>>
  /\ cgs = <<>>
  /\ cns = <<>>
  /\ written = <<>>
  /\ closed = <<>>
  /\ seq = 0
  /\ starts = 0
  /\ finalized = FALSE
  /\ ops = 0
  /\ link_calls = 0
  /\ result = Ok

Init ==
  /\ WriterInit
  /\ input = None
  /\ iter = None
  /\ output = <<>>

InitMdfFile ==
  /\ ~finalized
  /\ HdBlockId \notin DOMAIN block_positions
  /\ Commit(init_mdf_file(Writer))
  /\ UNCHANGED <<dgs, cgs, cns, written, closed, seq, starts, finalized, link_calls>>

AddDataGroup ==
  /\ ~finalized
  /\ HdBlockId \in DOMAIN block_positions
  /\ Len(dgs) < MaxDG
  /\ LET w == add_data_group(Writer, PrevOf(dgs))
     IN /\ Commit(w)
        /\ dgs' = Append(dgs, w.ret)
        /\ cgs' = (w.ret :> <<>>) @@ cgs
  /\ UNCHANGED <<cns, written, closed, seq, starts, finalized, link_calls>>

AddChannelGroup(dg) ==
  /\ ~finalized
  /\ Cardinality(AllCgs) < MaxCG
  /\ LET w == add_channel_group(Writer, dg, PrevOf(cgs[dg]))
     IN /\ Commit(w)
        /\ cgs' = [cgs EXCEPT ![dg] = Append(@, w.ret)]
        /\ cns' = (w.ret :> <<>>) @@ cns
  /\ UNCHANGED <<dgs, written, closed, seq, starts, finalized, link_calls>>

AddChannel(cg, t) ==
  /\ ~finalized
  /\ NumChannels < MaxCN
  /\ LET ch == ChannelFrom(cg, t)
         prev == IF Len(cns[cg]) = 0 THEN None ELSE Last(cns[cg]).id
         w == add_channel(Writer, cg, prev, ch)
     IN /\ Commit(w)
        /\ cns' = [cns EXCEPT ![cg] = Append(@, [id |-> w.ret, ch |-> ch])]
  /\ UNCHANGED <<dgs, cgs, written, closed, seq, starts, finalized, link_calls>>

StartDataBlock(cg, record_id_len) ==
  /\ ~finalized
  /\ Len(cns[cg]) > 0
  /\ starts < MaxStarts
  /\ LET w == start_data_block(Writer, ParentOf(cg), cg, record_id_len, ChannelsOf(cg))
     IN /\ Commit(w)
        /\ IF w.err = Ok
           THEN /\ written' = (cg :> <<>>) @@ written
                /\ closed' = [k \in DOMAIN closed \ {cg} |-> closed[k]]
                /\ starts' = starts + 1
           ELSE UNCHANGED <<written, closed, starts>>
  /\ UNCHANGED <<dgs, cgs, cns, seq, finalized, link_calls>>

\* Bookkeeping of the caller after a record-writing call on cg.
Wrote(cg, w, recs) ==
  /\ Commit(w)
  /\ seq' = IF w.err = Ok THEN seq + Len(recs) ELSE seq
  /\ written' = IF w.err = Ok /\ cg \in DOMAIN written
                THEN [written EXCEPT ![cg] = @ \o recs]
                ELSE written
  /\ UNCHANGED <<dgs, cgs, cns, closed, starts, finalized, link_calls>>

WriteRecord(cg) ==
  /\ ~finalized
  /\ seq < MaxWrites
  /\ LET r == RecordFor(cg, seq + 1)
     IN Wrote(cg, write_record(Writer, cg, r.tag, r.values), <<r>>)

WriteRecordU64(cg) ==
  /\ ~finalized
  /\ seq < MaxWrites
  /\ LET r == RecordU64For(cg, seq + 1)
     IN Wrote(cg, write_record_u64(Writer, cg, r.tag, r.values),
              <<RecordFor(cg, seq + 1)>>)

WriteRecords(cg, n) ==
  /\ ~finalized
  /\ seq + n <= MaxWrites
  /\ LET recs == [i \in 1..n |-> RecordFor(cg, seq + i)]
     IN Wrote(cg, write_records(Writer, cg, recs), recs)

WriteRecordsU64(cg, n) ==
  /\ ~finalized
  /\ seq + n <= MaxWrites
  /\ LET recs == [i \in 1..n |-> RecordU64For(cg, seq + i)]
     IN Wrote(cg, write_records_u64(Writer, cg, recs),
              [i \in 1..n |-> RecordFor(cg, seq + i)])

\* What the caller can observe right after finish_data_block returned.
FinishInfo(cg, w) ==
  [bytes |-> IF cg \in DOMAIN open_dts
             THEN open_dts[cg].record_size * Len(written[cg]) ELSE 0,
   new_dls |-> {k \in DOMAIN w.block_positions : k[1] = "dl"}
                 \ {k \in DOMAIN block_positions : k[1] = "dl"},
   dg_data |-> w.blk[w.block_positions[ParentOf(cg)]].f[DgDataLinkOffset].v,
   fragments |-> IF cg \in DOMAIN open_dts
                 THEN open_dts[cg].dt_positions ELSE <<>>]

FinishDataBlock(cg) ==
  /\ ~finalized
  /\ LET w == finish_data_block(Writer, cg)
     IN /\ Commit(w)
        /\ closed' = IF w.err = Ok THEN (cg :> FinishInfo(cg, w)) @@ closed
                     ELSE closed
  /\ UNCHANGED <<dgs, cgs, cns, written, seq, starts, finalized, link_calls>>

Finalize ==
  /\ ~finalized
  /\ finalized' = TRUE
  /\ result' = Ok
  /\ UNCHANGED <<file, blk, offset, cursor, block_positions, open_dts,
                 dt_counter, patches, corrupt, dgs, cgs, cns, written,
                 closed, seq, starts, ops, link_calls>>
  /\ UNCHANGED fn_vars

Next ==
  \/ InitMdfFile
  \/ AddDataGroup
  \/ \E dg \in DOMAIN cgs : AddChannelGroup(dg)
  \/ \E cg \in AllCgs, t \in ChannelTemplates : AddChannel(cg, t)
  \/ \E cg \in AllCgs, rid \in RecordIdLens : StartDataBlock(cg, rid)
  \/ \E cg \in AllCgs : WriteRecord(cg)
  \/ \E cg \in AllCgs : WriteRecordU64(cg)
  \/ \E cg \in AllCgs, n \in 1..MaxBatch : WriteRecords(cg, n)
  \/ \E cg \in AllCgs, n \in 1..MaxBatch : WriteRecordsU64(cg, n)
  \/ \E cg \in AllCgs : FinishDataBlock(cg)
  \/ Finalize

Spec == Init /\ [][Next]_vars

(* ------------------- direct calls of update_block_link ------------------ *)
\* Block ids a caller may name: the registered ones and two that no call
\* ever registers.
LinkIds == {k \in DOMAIN block_positions : k[1] \in {"hd_block", "dg"}}
             \cup {<<"dg", MaxDG>>, <<"tx_comment", 0>>}
LinkOffsets == {DgNextOffset, DgFirstCgOffset}

UpdateBlockLinkCall(source_id, link_offset, target_id) ==
  /\ ~finalized
  /\ link_calls < MaxLinkCalls
  /\ LET w == UpdateBlockLink(Writer, source_id, link_offset, target_id)
     IN /\ Commit(w)
        /\ link_calls' = IF w.err = Ok THEN link_calls + 1 ELSE link_calls
  /\ UNCHANGED <<dgs, cgs, cns, written, closed, seq, starts, finalized>>

NextLink ==
  \/ InitMdfFile
  \/ AddDataGroup
  \/ \E s \in LinkIds, t \in LinkIds, o \in LinkOffsets : UpdateBlockLinkCall(s, o, t)

SpecLink == Init /\ [][NextLink]_vars

(* ------------------------------ reader --------------------------------- *)
\* The walks below follow links until a null link; Fuel only bounds the
\* unfolding of the recursive definitions.
Fuel == Cardinality(DOMAIN blk) + 1

HasBlock(addr, kind) == addr \in DOMAIN blk /\ blk[addr].kind = kind

Link(addr, off) == blk[addr].f[off].v

\* The addresses visited from `addr` along the link at `next_off`.
RECURSIVE Chain(_, _, _, _)
Chain(addr, kind, next_off, fuel) ==
  IF addr = 0 \/ fuel = 0 \/ ~HasBlock(addr, kind) THEN <<>>
  ELSE <<addr>> \o Chain(Link(addr, next_off), kind, next_off, fuel - 1)

\* MdfFile::parse_from_file: the data groups, their channel groups and
\* channels, in chain order.
HdAddr == IdBlockLen
ParsedDgs ==
  IF HasBlock(HdAddr, "##HD")
  THEN Chain(Link(HdAddr, HdFirstDgOffset), "##DG", DgNextOffset, Fuel)
  ELSE <<>>
ParsedCgs(dg) == Chain(Link(dg, DgFirstCgOffset), "##CG", CgNextOffset, Fuel)
ParsedCns(cg) == Chain(Link(cg, CgFirstCnOffset), "##CN", CnNextOffset, Fuel)

RECURSIVE Flatten(_)
Flatten(ss) == IF Len(ss) = 0 THEN <<>> ELSE ss[1] \o Flatten(Tail(ss))

\* MDF::channel_groups: every channel group of every data group.
ChannelGroups ==
  Flatten([i \in 1..Len(ParsedDgs) |->
             LET dg == ParsedDgs[i]
                 c == ParsedCgs(dg)
             IN [j \in 1..Len(c) |-> [dg |-> dg, cg |-> c[j]]]])

\* DataListBlock::from_bytes: the data links behind the `next` link.
DlLinks(addr) ==
  [i \in 1..(blk[addr].links_nr - 1) |-> Link(addr, 32 + 8 * (i - 1))]

\* RawDataGroup::data_blocks: the fragments reachable from the data link.
RECURSIVE DataBlocksFrom(_, _)
DataBlocksFrom(addr, fuel) ==
  IF addr = 0 \/ fuel = 0 \/ addr \notin DOMAIN blk THEN <<>>
  ELSE IF blk[addr].kind = "##DT" THEN <<addr>>
  ELSE IF blk[addr].kind = "##DL"
    THEN DlLinks(addr) \o DataBlocksFrom(Link(addr, 24), fuel - 1)
  ELSE <<>>
DataBlocks(dg) == DataBlocksFrom(Link(dg, DgDataLinkOffset), Fuel)

\* DataBlock::from_bytes: the payload is bytes[24 .. block_len].
PayloadStart(addr) == addr + HeaderLen
PayloadLen(addr) == Max(blk[addr].block_len - HeaderLen, 0)

\* Start positions of the record_size-sized chunks of a payload of `len`
\* bytes at `start`; a trailing partial record is dropped.
Chunks(start, len, record_size) ==
  [i \in 1..(len \div record_size) |-> start + (i - 1) * record_size]

RecordSize(dg, cg) == Link(dg, DgRecIdLenOffset) + Link(cg, CgSamplesBytesOffset)

\* RawChannel::records (fixed layout): the records of a group, each given
\* by the file position of its first byte.
\* `raw.len() / record_size` divides by zero for a group without record
\* bytes as soon as the data group has a fragment.
DividesByZero(dg, cg) == RecordSize(dg, cg) = 0 /\ Len(DataBlocks(dg)) > 0

Records(dg, cg) ==
  LET b == DataBlocks(dg)
  IN IF RecordSize(dg, cg) = 0 THEN <<>>
     ELSE Flatten([i \in 1..Len(b) |->
                Chunks(PayloadStart(b[i]), PayloadLen(b[i]), RecordSize(dg, cg))])

(* ------------------------------ decoder -------------------------------- *)
Unknown == [variant |-> "Unknown", v |-> 0]
NoValue == [variant |-> "None", v |-> 0]
\* Bytes of the file that no encoder wrote as a channel value.
Raw(pos) == [variant |-> "Raw", v |-> pos]

IsStringOrBytes(data_type) ==
  data_type \in {"StringLatin1", "StringUtf8", "StringUtf16LE", "StringUtf16BE",
                 "ByteArray", "MimeSample", "MimeStream"}

NumBytes(ch) ==
  IF IsStringOrBytes(ch.data_type) THEN ch.bit_count \div 8
  ELSE Max((ch.bit_offset + ch.bit_count + 7) \div 8, 1)

VariantOf(data_type) ==
  CASE data_type \in {"UnsignedIntegerLE", "UnsignedIntegerBE"} -> "UnsignedInteger"
    [] data_type \in {"SignedIntegerLE", "SignedIntegerBE"} -> "SignedInteger"
    [] data_type \in {"ByteArray", "MimeSample", "MimeStream"} -> data_type
    [] OTHER -> "Unknown"

\* The extent of the file holding position p.
ExtentAt(p) == CHOOSE i \in 1..Len(file) : file[i].pos <= p /\ p < file[i].pos + file[i].len

\* The value of the `nb` bytes at file position p, read as the channel's type.
BytesAt(p, nb, ch) ==
  IF p + nb > EndOf(file) THEN Raw(p)
  ELSE
    LET e == file[ExtentAt(p)]
        rel == p - e.pos
        hit == {i \in 1..Len(e.fields) :
                  e.fields[i].off < rel + nb /\ rel < e.fields[i].off + e.fields[i].bytes}
    IN IF rel + nb > e.len \/ e.kind = "block" THEN Raw(p)
       ELSE IF hit = {} THEN [variant |-> VariantOf(ch.data_type), v |-> 0]
       ELSE IF \E i \in hit : e.fields[i].off = rel /\ e.fields[i].bytes = nb
                                /\ ch.bit_offset = 0 /\ ch.bit_count = 8 * nb
         THEN LET i == CHOOSE j \in hit : e.fields[j].off = rel
              IN IF e.fields[i].val < 0 THEN Raw(-1 - e.fields[i].val)
                 ELSE [variant |-> VariantOf(ch.data_type), v |-> e.fields[i].val]
       ELSE Raw(p)

\* decode_channel_value on the record of `len` bytes at file position rec.
decode_channel_value(rec, len, record_id_size, ch) ==
  LET base_offset == record_id_size + ch.byte_offset
  IN IF base_offset + NumBytes(ch) > len THEN NoValue
     ELSE BytesAt(rec + base_offset, NumBytes(ch), ch)

\* ChannelBlock::apply_conversion_value: unchanged without a conversion block.
CnConversionOffset == 56
apply_conversion_value(cn, dv) ==
  IF Link(cn, CnConversionOffset) = 0 THEN dv ELSE Unknown

\* Channel::values
values(dg, cg, cn) ==
  LET recs == Records(dg, cg)
      rid == Link(dg, DgRecIdLenOffset)
  IN [i \in 1..Len(recs) |->
        LET d == decode_channel_value(recs[i], RecordSize(dg, cg), rid, blk[cn].ch)
            dv == IF d = NoValue THEN Unknown ELSE d
        IN apply_conversion_value(cn, dv)]

(* ------------------------------- index --------------------------------- *)
\* MdfIndex::extract_data_blocks: offset and size of every fragment.
DataBlockInfo(addr, compressed) ==
  [file_offset |-> addr, size |-> blk[addr].block_len, is_compressed |-> compressed]

RECURSIVE ExtractFrom(_, _)
ExtractFrom(addr, fuel) ==
  IF addr = 0 \/ fuel = 0 \/ addr \notin DOMAIN blk THEN <<>>
  ELSE IF blk[addr].kind \in {"##DT", "##DV"} THEN <<DataBlockInfo(addr, FALSE)>>
  ELSE IF blk[addr].kind = "##DZ" THEN <<DataBlockInfo(addr, TRUE)>>
  ELSE IF blk[addr].kind = "##DL"
    THEN LET l == DlLinks(addr)
         IN [i \in 1..Len(l) |-> DataBlockInfo(l[i], blk[l[i]].kind = "##DZ")]
              \o ExtractFrom(Link(addr, 24), fuel - 1)
  ELSE <<>>
extract_data_blocks(dg) == ExtractFrom(Link(dg, DgDataLinkOffset), Fuel)

IndexedChannel(cn) ==
  LET ch == blk[cn].ch
  IN [data_type |-> ch.data_type, byte_offset |-> ch.byte_offset,
      bit_offset |-> ch.bit_offset, bit_count |-> ch.bit_count,
      channel_type |-> ch.channel_type,
      conversion |-> IF Link(cn, CnConversionOffset) = 0 THEN "null" ELSE "cc",
      vlsd_data_address |-> IF ch.channel_type = 1 /\ ch.data # 0
                            THEN ch.data ELSE 0]

\* MdfIndex::from_file
from_file ==
  [file_size |-> EndOf(file),
   channel_groups |->
     [g \in 1..Len(ChannelGroups) |->
        LET dg == ChannelGroups[g].dg
            cg == ChannelGroups[g].cg
            c == ParsedCns(cg)
        IN [record_id_len |-> Link(dg, DgRecIdLenOffset),
            record_size |-> Link(cg, CgSamplesBytesOffset),
            record_count |-> Link(cg, CgCyclesOffset),
            channels |-> [j \in 1..Len(c) |-> IndexedChannel(c[j])],
            data_blocks |-> extract_data_blocks(dg)]]]

\* The JSON text of the index: objects are lists of <<label, value>>.
ObjectOf(r, labels) == [i \in 1..Len(labels) |-> <<labels[i], r[labels[i]]>>]
Member(obj, label) ==
  LET i == CHOOSE j \in 1..Len(obj) : obj[j][1] = label IN obj[i][2]

ChannelLabels == <<"data_type", "byte_offset", "bit_offset", "bit_count",
                   "channel_type", "conversion", "vlsd_data_address">>
BlockLabels == <<"file_offset", "size", "is_compressed">>

save_to_file(index) ==
  <<<<"file_size", index.file_size>>,
    <<"channel_groups",
      [g \in 1..Len(index.channel_groups) |->
         LET grp == index.channel_groups[g]
         IN <<<<"record_id_len", grp.record_id_len>>,
              <<"record_size", grp.record_size>>,
              <<"record_count", grp.record_count>>,
              <<"channels", [j \in 1..Len(grp.channels) |->
                               ObjectOf(grp.channels[j], ChannelLabels)]>>,
              <<"data_blocks", [j \in 1..Len(grp.data_blocks) |->
                                  ObjectOf(grp.data_blocks[j], BlockLabels)]>> >>]>> >>

load_from_file(json) ==
  [file_size |-> Member(json, "file_size"),
   channel_groups |->
     LET gs == Member(json, "channel_groups")
     IN [g \in 1..Len(gs) |->
           LET cs == Member(gs[g], "channels")
               bs == Member(gs[g], "data_blocks")
           IN [record_id_len |-> Member(gs[g], "record_id_len"),
               record_size |-> Member(gs[g], "record_size"),
               record_count |-> Member(gs[g], "record_count"),
               channels |-> [j \in 1..Len(cs) |->
                               [l \in {ChannelLabels[k] : k \in 1..Len(ChannelLabels)}
                                  |-> Member(cs[j], l)]],
               data_blocks |-> [j \in 1..Len(bs) |->
                                  [l \in {BlockLabels[k] : k \in 1..Len(BlockLabels)}
                                     |-> Member(bs[j], l)]]]]]

\* Keep the elements of a sequence of decode results that are Some(_).
RECURSIVE Somes(_)
Somes(ds) ==
  IF Len(ds) = 0 THEN <<>>
  ELSE IF ds[1] = NoValue THEN Somes(Tail(ds))
  ELSE <<ds[1]>> \o Somes(Tail(ds))

\* MdfIndex::read_regular_channel_values with a reader over the same file.
read_regular_channel_values(group, channel) ==
  LET record_size == group.record_id_len + group.record_size
      b == group.data_blocks
      recs == IF record_size = 0 THEN <<>>
              ELSE Flatten([i \in 1..Len(b) |->
                     Chunks(b[i].file_offset + HeaderLen, b[i].size - HeaderLen,
                            record_size)])
  IN Somes([i \in 1..Len(recs) |->
              decode_channel_value(recs[i], record_size, group.record_id_len, channel)])

\* MdfIndex::read_channel_values
read_channel_values(index, group_index, channel_index) ==
  LET group == index.channel_groups[group_index]
  IN read_regular_channel_values(group, group.channels[channel_index])

\* Byte ranges: Ok(ranges) or Err(e).
Ranges(r) == [err |-> Ok, ranges |-> r]
RangesErr(text) == [err |-> <<"BlockSerializationError", text, None>>, ranges |-> <<>>]

\* The loop of calculate_channel_byte_ranges_for_records from data block i
\* on; a compressed block ends the result with the marker <<0, 0>>.
RECURSIVE RangesLoop(_, _, _, _, _, _)
RangesLoop(group, channel, start_record, record_count, i, records_processed) ==
  IF i > Len(group.data_blocks) THEN <<>>
  ELSE IF group.data_blocks[i].is_compressed THEN << <<0, 0>> >>
  ELSE
    LET record_size == group.record_id_len + group.record_size
        channel_offset_in_record == group.record_id_len + channel.byte_offset
        channel_bytes_per_record == NumBytes(channel)
        data_block == group.data_blocks[i]
        block_data_start == data_block.file_offset + HeaderLen
        block_data_size == data_block.size - HeaderLen
        records_in_block == block_data_size \div record_size
        block_start_record == records_processed
        block_end_record == records_processed + records_in_block
        need_start == Max(start_record, block_start_record)
        need_end == Min(start_record + record_count, block_end_record)
        first_record_in_block == need_start - block_start_record
        last_record_in_block == need_end - block_start_record - 1
        first_channel_byte == block_data_start + first_record_in_block * record_size
                                + channel_offset_in_record
        last_channel_byte == block_data_start + last_record_in_block * record_size
                               + channel_offset_in_record + channel_bytes_per_record - 1
        range_length == last_channel_byte - first_channel_byte + 1
    IN (IF need_start < need_end THEN << <<first_channel_byte, range_length>> >>
        ELSE <<>>)
       \o (IF block_end_record >= start_record + record_count THEN <<>>
           ELSE RangesLoop(group, channel, start_record, record_count, i + 1,
                           block_end_record))

\* `block_data_size / record_size` divides by zero for a group without
\* record bytes as soon as the group has a data block.
RangesDivideByZero(group) ==
  group.record_id_len + group.record_size = 0 /\ Len(group.data_blocks) > 0

calculate_channel_byte_ranges_for_records(group, channel, start_record, record_count) ==
  LET r == RangesLoop(group, channel, start_record, record_count, 1, 0)
  IN IF Len(r) > 0 /\ Last(r) = <<0, 0>>
     THEN RangesErr("Compressed blocks not supported for byte range calculation")
     ELSE Ranges(r)

IsVlsd(channel) == channel.channel_type = 1 /\ channel.vlsd_data_address # 0

\* MdfIndex::get_channel_byte_ranges
get_channel_byte_ranges(index, group_index, channel_index) ==
  IF group_index \notin 1..Len(index.channel_groups)
  THEN RangesErr("Invalid group index")
  ELSE LET group == index.channel_groups[group_index]
       IN IF channel_index \notin 1..Len(group.channels)
          THEN RangesErr("Invalid channel index")
          ELSE IF IsVlsd(group.channels[channel_index])
          THEN RangesErr("VLSD channels not yet supported for byte range calculation")
          ELSE calculate_channel_byte_ranges_for_records(
                 group, group.channels[channel_index], 0, group.record_count)

\* MdfIndex::get_channel_byte_ranges_for_records
get_channel_byte_ranges_for_records(index, group_index, channel_index, start_record, record_count) ==
  IF group_index \notin 1..Len(index.channel_groups)
  THEN RangesErr("Invalid group index")
  ELSE LET group == index.channel_groups[group_index]
       IN IF channel_index \notin 1..Len(group.channels)
          THEN RangesErr("Invalid channel index")
          ELSE IF start_record + record_count > group.record_count
          THEN RangesErr("Record range exceeds total records")
          ELSE IF IsVlsd(group.channels[channel_index])
          THEN RangesErr("VLSD channels not yet supported for byte range calculation")
          ELSE calculate_channel_byte_ranges_for_records(
                 group, group.channels[channel_index], start_record, record_count)

(* ----------------------- VLSD record iterator -------------------------- *)
MaxSdLen == 8
MaxNextCalls == 4
ByteVals == {0, 1, 2}

SdAddr == 64
DlAddr == 128

\* The blocks of a mapped file that a VLSD channel's data link leads to.
MappedSd(data, ok) == [kind |-> "##SD", ok |-> ok, data |-> data, data_links |-> <<>>, next |-> 0]
MappedDl(links) == [kind |-> "##DL", ok |-> TRUE, data |-> <<>>, data_links |-> links, next |-> 0]
MappedDt == [kind |-> "##DT", ok |-> TRUE, data |-> <<>>, data_links |-> <<>>, next |-> 0]

SdBufs == UNION {[1..n -> ByteVals] : n \in 0..MaxSdLen}

VlsdInputs ==
  {[data |-> SdAddr, blocks |-> (SdAddr :> MappedSd(b, TRUE))] : b \in SdBufs}
  \cup {[data |-> DlAddr,
         blocks |-> (DlAddr :> MappedDl(<<SdAddr>>) @@ SdAddr :> MappedSd(b, ok))] :
          b \in {<<>>, <<0, 0, 0, 0>>}, ok \in BOOLEAN}
  \cup {[data |-> SdAddr, blocks |-> (SdAddr :> MappedSd(<<>>, FALSE))],
        [data |-> SdAddr, blocks |-> (SdAddr :> MappedDt)],
        [data |-> 0, blocks |-> (SdAddr :> MappedSd(<<>>, TRUE))]}

\* What one call of the iterator returns.
ItemNone == [kind |-> "None", error |-> <<>>, slice |-> <<>>]
ItemOk(slice) == [kind |-> "Ok", error |-> <<>>, slice |-> slice]
ItemErr(e) == [kind |-> "Err", error |-> e, slice |-> <<>>]
ItemPanic == [kind |-> "Panic", error |-> <<>>, slice |-> <<>>]

TooShortBuffer(actual, expected) == <<"TooShortBuffer", actual, expected>>
BlockIDError == <<"BlockIDError", 0, 0>>

\* u32::from_le_bytes(buf[pos..pos+4]), pos counted from 0
U32At(buf, pos) ==
  buf[pos + 1] + 256 * buf[pos + 2] + 65536 * buf[pos + 3] + 16777216 * buf[pos + 4]

\* RawChannel::records, VLSD path: the state captured by the closure.
VlsdIter(in) ==
  [next_addr |-> in.data, data_links |-> <<>>, link_idx |-> 0,
   current_sdb |-> 0, sdb_pos |-> 0]

\* One call of the from_fn closure: the new closure state and the item.
RECURSIVE VlsdNext(_, _, _)
VlsdNext(in, st, fuel) ==
  IF fuel = 0 THEN [st |-> st, item |-> ItemPanic]
  ELSE IF st.current_sdb # 0 /\ st.sdb_pos + 4 <= Len(in.blocks[st.current_sdb].data)
    THEN LET buf == in.blocks[st.current_sdb].data
             len == U32At(buf, st.sdb_pos)
             start == st.sdb_pos + 4
             end == start + len
         IN IF end > Len(buf)
            THEN [st |-> st, item |-> ItemErr(TooShortBuffer(Len(buf), end))]
            ELSE [st |-> [st EXCEPT !.sdb_pos = end],
                  item |-> ItemOk(SubSeq(buf, start + 1, end))]
  ELSE
    LET s1 == [st EXCEPT !.current_sdb = 0]
    IN IF s1.link_idx < Len(s1.data_links)
       THEN LET frag_addr == s1.data_links[s1.link_idx + 1]
                s2 == [s1 EXCEPT !.link_idx = @ + 1]
            IN IF in.blocks[frag_addr].kind = "##SD" /\ in.blocks[frag_addr].ok
               THEN [st |-> [s2 EXCEPT !.current_sdb = frag_addr, !.sdb_pos = 0],
                     item |-> ItemPanic]
               ELSE [st |-> s2, item |-> ItemErr(TooShortBuffer(0, 0))]
       ELSE IF s1.next_addr # 0
       THEN LET b == in.blocks[s1.next_addr]
            IN IF b.kind = "##DL"
               THEN IF b.ok
                    THEN VlsdNext(in, [s1 EXCEPT !.data_links = b.data_links,
                                                 !.link_idx = 0,
                                                 !.next_addr = b.next], fuel - 1)
                    ELSE [st |-> s1, item |-> ItemErr(TooShortBuffer(0, 0))]
               ELSE IF b.kind = "##SD"
               THEN IF b.ok
                    THEN VlsdNext(in, [s1 EXCEPT !.current_sdb = s1.next_addr,
                                                 !.sdb_pos = 0,
                                                 !.next_addr = 0], fuel - 1)
                    ELSE [st |-> s1, item |-> ItemErr(TooShortBuffer(0, 0))]
               ELSE [st |-> s1, item |-> ItemErr(BlockIDError)]
       ELSE [st |-> s1, item |-> ItemNone]

WriterIdle == UNCHANGED writer_vars

InitVlsd ==
  /\ WriterInit
  /\ input \in VlsdInputs
  /\ iter = VlsdIter(input)
  /\ output = <<>>

\* iterator.next()
NextRecord ==
  /\ Len(output) < MaxNextCalls
  /\ Len(output) > 0 => Last(output).kind # "Panic"
  /\ LET r == VlsdNext(input, iter, Cardinality(DOMAIN input.blocks) + 2)
     IN /\ iter' = r.st
        /\ output' = Append(output, r.item)
  /\ UNCHANGED input
  /\ WriterIdle

SpecVlsd == InitVlsd /\ [][NextRecord]_vars

(* ------------------- conversion dependency resolution ------------------ *)
MaxCcBlocks == 3

\* Link values of the mapped file: CC blocks at CcAt(1..n), a TX block, a
\* block of another kind, and a link that points behind the file.
CcAt(i) == 64 * i
TxAt == CcAt(MaxCcBlocks + 1)
OtherAt == CcAt(MaxCcBlocks + 2)
BehindFile == CcAt(MaxCcBlocks + 3)

CcRefs(n) ==
  {<<t, c>> : t \in {0, TxAt},
              c \in {0, TxAt, OtherAt, BehindFile} \cup {CcAt(i) : i \in 1..n}}

\* Files with n conversion blocks, each with its cc_ref list.
ConvInputs(n) ==
  {[file_len |-> BehindFile, start |-> CcAt(1),
    cc_ref |-> [a \in {CcAt(i) : i \in 1..n} |-> refs[a \div 64]]] :
     refs \in [1..n -> CcRefs(n)]}

BlockIdAt(in, addr) ==
  IF addr \in DOMAIN in.cc_ref THEN "##CC"
  ELSE IF addr = TxAt THEN "##TX" ELSE "##XX"

Resolved(texts, conversions) ==
  [kind |-> "Ok", texts |-> texts, conversions |-> conversions]
\* The recursion of resolve_all_dependencies never returns: the stack
\* overflows and the process is aborted.
StackOverflow == [kind |-> "Abort", texts |-> {}, conversions |-> <<>>]

\* ConversionBlock::resolve_all_dependencies on the block at addr; `path`
\* holds the blocks whose resolution is in progress.
RECURSIVE resolve_all_dependencies(_, _, _)
resolve_all_dependencies(in, addr, path) ==
  IF addr \in path THEN StackOverflow
  ELSE
    LET refs == in.cc_ref[addr]
        live == {i \in 1..Len(refs) : refs[i] # 0 /\ refs[i] + 24 <= in.file_len}
        texts == {i \in live : BlockIdAt(in, refs[i]) = "##TX"}
        nested == {i \in live : BlockIdAt(in, refs[i]) = "##CC"}
        sub == [i \in nested |->
                  resolve_all_dependencies(in, refs[i], path \cup {addr})]
    IN IF \E i \in nested : sub[i].kind = "Abort" THEN StackOverflow
       ELSE Resolved(texts, sub)

InitConv ==
  /\ WriterInit
  /\ \E n \in 1..MaxCcBlocks : input \in ConvInputs(n)
  /\ iter = None
  /\ output = <<>>

ResolveAllDependencies ==
  /\ output = <<>>
  /\ output' = <<resolve_all_dependencies(input, input.start, {})>>
  /\ UNCHANGED <<input, iter>>
  /\ WriterIdle

SpecConv == InitConv /\ [][ResolveAllDependencies]_vars

(* --------------------------- value validity ---------------------------- *)
MaxInvalPos == 10
MaxRecordLen == 4
MaxDataBytes == 1
CN_FLAG_ALL_INVALID == 1
CN_FLAG_INVAL_BIT_VALID == 2

RecordBytesVals == {0, 4, 255}
FlagVals == {0, 1, 2, 3, 6}

ValidityInputs ==
  [record : UNION {[1..n -> RecordBytesVals] : n \in 0..MaxRecordLen},
   record_id_size : {0, 1},
   cg_data_bytes : 0..MaxDataBytes,
   flags : FlagVals,
   pos_invalidation_bit : 0..MaxInvalPos]

\* x & mask for a mask with a single bit set
HasBit(x, mask) == (x \div mask) % 2 = 1

\* The invalidation byte is looked up from the start of the data bytes.
check_value_validity_without_data_bytes(record, record_id_size, cg_data_bytes, channel) ==
  IF HasBit(channel.flags, CN_FLAG_ALL_INVALID) THEN FALSE
  ELSE IF ~HasBit(channel.flags, CN_FLAG_ALL_INVALID)
            /\ ~HasBit(channel.flags, CN_FLAG_INVAL_BIT_VALID) THEN TRUE
  ELSE
    LET inval_byte_offset == record_id_size + (channel.pos_invalidation_bit \div 8)
        inval_bit_index == channel.pos_invalidation_bit % 8
    IN IF inval_byte_offset < Len(record)
       THEN ~HasBit(record[inval_byte_offset + 1], Pow2(inval_bit_index))
       ELSE TRUE

check_value_validity(record, record_id_size, cg_data_bytes, channel) ==
  IF HasBit(channel.flags, CN_FLAG_ALL_INVALID) THEN FALSE
  ELSE IF ~HasBit(channel.flags, CN_FLAG_ALL_INVALID)
            /\ ~HasBit(channel.flags, CN_FLAG_INVAL_BIT_VALID) THEN TRUE
  ELSE
    LET inval_byte_offset == record_id_size + cg_data_bytes
                               + (channel.pos_invalidation_bit \div 8)
        inval_bit_index == channel.pos_invalidation_bit % 8
    IN IF inval_byte_offset < Len(record)
       THEN ~HasBit(record[inval_byte_offset + 1], Pow2(inval_bit_index))
       ELSE TRUE

InitValidity ==
  /\ WriterInit
  /\ input \in ValidityInputs
  /\ iter = None
  /\ output = <<>>

CheckValueValidity ==
  /\ output = <<>>
  /\ output' = <<check_value_validity(
                   input.record, input.record_id_size, input.cg_data_bytes,
                   [flags |-> input.flags,
                    pos_invalidation_bit |-> input.pos_invalidation_bit])>>
  /\ UNCHANGED <<input, iter>>
  /\ WriterIdle

SpecValidity == InitValidity /\ [][CheckValueValidity]_vars

(* ------------------------------ transforms ----------------------------- *)
\* Channels of the files the transforms read: a named master channel
\* (channel_type 2, sync_type 1) and an unnamed value channel.
SourceTemplates ==
  { [data_type |-> "UnsignedIntegerLE", bit_count |-> 16, gap |-> 0,
     named |-> TRUE, channel_type |-> 2, sync_type |-> 1],
    [data_type |-> "UnsignedIntegerLE", bit_count |-> 16, gap |-> 0,
     named |-> FALSE, channel_type |-> 0, sync_type |-> 0] }

\* MdfWriter::new: the writer of the destination file.
NewWriter ==
  [file |-> <<>>, blk |-> <<>>, offset |-> 0, cursor |-> 0,
   block_positions |-> <<>>, open_dts |-> <<>>, dt_counter |-> 0,
   patches |-> {}, corrupt |-> FALSE, ret |-> 0, err |-> Ok,
   last_dg |-> None, cg_to_dg |-> <<>>, cg_channels |-> <<>>]

Panic == <<"panic", "attempt to divide by zero", None>>

\* A file without a header block does not parse.
ParseError == <<"TooShortBuffer", "", None>>
Parses == HasBlock(HdAddr, "##HD")
UnknownGroup == <<"BlockSerializationError", "unknown channel group", None>>

\* The new channel group is entered into cg_to_dg and cg_channels.
JoinDataGroup(w, dg_id, prev_cg_id) ==
  Then(add_channel_group(w, dg_id, prev_cg_id), LAMBDA x :
    [x EXCEPT !.cg_to_dg = (x.ret :> dg_id) @@ @,
              !.cg_channels = (x.ret :> <<>>) @@ @])

\* add_channel_group(prev_cg_id, configure): without a previous group a new
\* data group is chained behind the last one; with one, the group joins the
\* data group of its predecessor.
add_channel_group_implicit(w, prev_cg_id) ==
  IF prev_cg_id = None
  THEN Then(add_data_group(w, w.last_dg), LAMBDA d :
         JoinDataGroup([d EXCEPT !.last_dg = d.ret], d.ret, None))
  ELSE IF prev_cg_id \notin DOMAIN w.cg_to_dg THEN Fail(w, UnknownGroup)
  ELSE JoinDataGroup(w, w.cg_to_dg[prev_cg_id], prev_cg_id)

\* add_channel(cg_id, prev_cn_id, configure): the closure has made the
\* channel block b (with a name of name_len bytes, 0 for none).
add_channel_configured(w, cg_id, prev_cn_id, b, name_len) ==
  LET cn_id == <<"cn", CountIds(w, "cn")>>
      w1 == WriteBlockWithId(w, b, cn_id)
      cn_pos == w1.ret
      w2 == IF name_len # 0
            THEN LET wt == WriteBlockWithId(w1, TxBlock(name_len),
                                            <<"tx_name_cn", cn_id[2]>>)
                 IN UpdateLink(wt, cn_pos + CnNameOffset, wt.ret)
            ELSE w1
      w3 == IF prev_cn_id = None
            THEN UpdateBlockLink(w2, cg_id, CgFirstCnOffset, cn_id)
            ELSE UpdateBlockLink(w2, prev_cn_id, CnNextOffset, cn_id)
  IN Then(w3, LAMBDA x :
       [x EXCEPT !.ret = cn_id,
                 !.cg_channels = IF cg_id \in DOMAIN @
                                 THEN [@ EXCEPT ![cg_id] = Append(@, b.ch)]
                                 ELSE @])

start_data_block_for_cg(w, cg_id, record_id_len) ==
  IF cg_id \notin DOMAIN w.cg_to_dg THEN Fail(w, UnknownGroup)
  ELSE start_data_block(w, w.cg_to_dg[cg_id], cg_id, record_id_len,
                        w.cg_channels[cg_id])

\* RawChannel::records of one channel: a channel of type 1 walks its own
\* signal data, and a channel the writer made has none.
RawRecords(dg, cg, cn) ==
  IF blk[cn].ch.channel_type = 1 THEN <<>> ELSE Records(dg, cg)

\* The first it.next() of a fixed-layout channel divides by the record size.
RecordsPanic(dg, cg) ==
  /\ Len(ParsedCns(cg)) > 0
  /\ blk[ParsedCns(cg)[1]].ch.channel_type # 1
  /\ DividesByZero(dg, cg)

\* Number of rounds in which every iterator of the group yields a record.
Rounds(dg, cg) ==
  LET c == ParsedCns(cg)
  IN IF Len(c) = 0 THEN 0
     ELSE CHOOSE n \in {Len(RawRecords(dg, cg, c[k])) : k \in 1..Len(c)} :
            \A k \in 1..Len(c) : n <= Len(RawRecords(dg, cg, c[k]))

\* decode_channel_value(..).unwrap_or(Unknown), then apply_conversion_value
DecodedAt(dg, cg, cn, i) ==
  LET d == decode_channel_value(RawRecords(dg, cg, cn)[i], RecordSize(dg, cg),
                                Link(dg, DgRecIdLenOffset), blk[cn].ch)
  IN apply_conversion_value(cn, IF d = NoValue THEN Unknown ELSE d)

IsNumber(dv) == dv.variant \in {"Float", "UnsignedInteger", "SignedInteger"}

\* cut.rs line 52: the channel the code takes for the time channel
\* (0 when the group has none).
TimeIdx(cg) ==
  LET c == ParsedCns(cg)
      m == {k \in 1..Len(c) : blk[c[k]].ch.channel_type = 1
                              /\ blk[c[k]].ch.sync_type = 1}
  IN IF m = {} THEN 0 ELSE CHOOSE k \in m : \A j \in m : k <= j

\* The record loops of cut_mdf_by_time, from record i on.
RECURSIVE CutRecords(_, _, _, _, _, _, _)
CutRecords(w, dg, cg, cg_id, start_time, end_time, i) ==
  IF i > Rounds(dg, cg) THEN w
  ELSE
    LET c == ParsedCns(cg)
        vals == [k \in 1..Len(c) |-> DecodedAt(dg, cg, c[k], i)]
        time_idx == TimeIdx(cg)
    IN IF time_idx # 0 /\ (~IsNumber(vals[time_idx])
                            \/ vals[time_idx].v < start_time)
       THEN CutRecords(w, dg, cg, cg_id, start_time, end_time, i + 1)
       ELSE IF time_idx # 0 /\ vals[time_idx].v > end_time THEN w
       ELSE Then(write_record(w, cg_id, <<"rec", i>>, vals), LAMBDA x :
              CutRecords(x, dg, cg, cg_id, start_time, end_time, i + 1))

\* The channel loop: every channel block is written as it was parsed.
RECURSIVE CutChannels(_, _, _, _, _)
CutChannels(w, cg, cg_id, prev_cn, k) ==
  IF k > Len(ParsedCns(cg)) THEN w
  ELSE Then(add_channel_configured(w, cg_id, prev_cn, blk[ParsedCns(cg)[k]], 0),
            LAMBDA x : CutChannels(x, cg, cg_id, x.ret, k + 1))

\* The body of `for cg in &dg.channel_groups` behind add_channel_group.
CutGroupData(w, dg, cg, cg_id, start_time, end_time) ==
  Then(Then(Then(Then(CutChannels(w, cg, cg_id, None, 1),
    LAMBDA x : start_data_block_for_cg(x, cg_id, Link(dg, DgRecIdLenOffset))),
    LAMBDA x : IF RecordsPanic(dg, cg) THEN Fail(x, Panic)
               ELSE CutRecords(x, dg, cg, cg_id, start_time, end_time, 1)),
    LAMBDA x : finish_data_block(x, cg_id)),
    LAMBDA x : [x EXCEPT !.ret = cg_id])

CutGroup(w, dg, cg, prev_cg, start_time, end_time) ==
  Then(add_channel_group_implicit(w, prev_cg), LAMBDA x :
    CutGroupData(x, dg, cg, x.ret, start_time, end_time))

RECURSIVE CutGroups(_, _, _, _, _, _)
CutGroups(w, dg, prev_cg, j, start_time, end_time) ==
  IF j > Len(ParsedCgs(dg)) THEN w
  ELSE Then(CutGroup(w, dg, ParsedCgs(dg)[j], prev_cg, start_time, end_time),
            LAMBDA x : CutGroups(x, dg, x.ret, j + 1, start_time, end_time))

RECURSIVE CutDataGroups(_, _, _, _)
CutDataGroups(w, i, start_time, end_time) ==
  IF i > Len(ParsedDgs) THEN w
  ELSE Then(CutGroups(w, ParsedDgs[i], None, 1, start_time, end_time),
            LAMBDA x : CutDataGroups(x, i + 1, start_time, end_time))

\* cut_mdf_by_time: the writer of the destination after the last call.
cut_mdf_by_time(start_time, end_time) ==
  IF ~Parses THEN Fail(NewWriter, ParseError)
  ELSE Then(init_mdf_file(NewWriter), LAMBDA x :
         CutDataGroups(x, 1, start_time, end_time))

\* What a reader sees in the source file, group by group: the channel
\* blocks, the values of each channel and the cycle count.
SourceGroups ==
  [g \in 1..Len(ChannelGroups) |->
     LET dg == ChannelGroups[g].dg
         cg == ChannelGroups[g].cg
         c == ParsedCns(cg)
     IN [channels |-> [k \in 1..Len(c) |-> blk[c[k]].ch],
         data |-> [k \in 1..Len(c) |-> values(dg, cg, c[k])],
         cycles |-> Link(cg, CgCyclesOffset)]]

StartTimes == {0, 15}
EndTimes == {25, 100}

\* A transform has run: from here on the destination is the file under
\* study, `input` keeps the arguments and what the sources held, and
\* `output` names the transform.
Transformed(w, op, in) ==
  /\ file' = w.file
  /\ blk' = w.blk
  /\ offset' = w.offset
  /\ cursor' = w.cursor
  /\ block_positions' = w.block_positions
  /\ open_dts' = w.open_dts
  /\ dt_counter' = w.dt_counter
  /\ patches' = w.patches
  /\ corrupt' = w.corrupt
  /\ result' = w.err
  /\ input' = in
  /\ output' = <<op>>
  /\ UNCHANGED <<dgs, cgs, cns, written, closed, seq, starts, finalized, ops,
                 link_calls, iter>>

CutMdfByTime(start_time, end_time) ==
  /\ finalized
  /\ output = <<>>
  /\ Transformed(cut_mdf_by_time(start_time, end_time), "cut",
                 [start_time |-> start_time,
                  end_time |-> end_time, groups |-> SourceGroups])

\* The calls that write a source file.
WriteSource ==
  \/ InitMdfFile
  \/ AddDataGroup
  \/ \E dg \in DOMAIN cgs : AddChannelGroup(dg)
  \/ \E cg \in AllCgs, t \in SourceTemplates : AddChannel(cg, t)
  \/ \E cg \in AllCgs, rid \in RecordIdLens : StartDataBlock(cg, rid)
  \/ \E cg \in AllCgs : WriteRecord(cg)
  \/ \E cg \in AllCgs : WriteRecordU64(cg)
  \/ \E cg \in AllCgs, n \in 1..MaxBatch : WriteRecords(cg, n)
  \/ \E cg \in AllCgs, n \in 1..MaxBatch : WriteRecordsU64(cg, n)
  \/ \E cg \in AllCgs : FinishDataBlock(cg)
  \/ Finalize

NextCut ==
  \/ WriteSource
  \/ \E s \in StartTimes, e \in EndTimes : CutMdfByTime(s, e)

SpecCut == Init /\ [][NextCut]_vars

(* -------------------------------- merge -------------------------------- *)
\* read_string_block(mmap, name_addr): the channel's name (the model keeps
\* its length; 0 stands for None).
ChannelName(cn) ==
  IF HasBlock(Link(cn, CnNameOffset), "##TX") THEN blk[cn].ch.name_len ELSE 0

ChannelMeta(cn) ==
  [name |-> ChannelName(cn), data_type |-> blk[cn].ch.data_type,
   bit_offset |-> blk[cn].ch.bit_offset, byte_offset |-> blk[cn].ch.byte_offset,
   bit_count |-> blk[cn].ch.bit_count, channel_type |-> blk[cn].ch.channel_type]

\* An iterator of collect_groups divides by a record size of zero.
CollectPanics ==
  \E g \in 1..Len(ChannelGroups) :
    /\ DividesByZero(ChannelGroups[g].dg, ChannelGroups[g].cg)
    /\ \E k \in 1..Len(ParsedCns(ChannelGroups[g].cg)) :
         blk[ParsedCns(ChannelGroups[g].cg)[k]].ch.channel_type # 1

\* collect_groups(file): layout and decoded values (no conversion applied)
\* of every channel group of the file.
collect_groups ==
  [g \in 1..Len(ChannelGroups) |->
     LET dg == ChannelGroups[g].dg
         cg == ChannelGroups[g].cg
         c == ParsedCns(cg)
     IN [meta |-> [record_id_len |-> Link(dg, DgRecIdLenOffset),
                   channels |-> [k \in 1..Len(c) |-> ChannelMeta(c[k])]],
         data |-> [k \in 1..Len(c) |->
                     [i \in 1..Len(RawRecords(dg, cg, c[k])) |->
                        LET d == decode_channel_value(
                                   RawRecords(dg, cg, c[k])[i], RecordSize(dg, cg),
                                   Link(dg, DgRecIdLenOffset), blk[c[k]].ch)
                        IN IF d = NoValue THEN Unknown ELSE d]]]]

metas_equal(a, b) ==
  /\ Len(a.channels) = Len(b.channels)
  /\ \A k \in 1..Len(a.channels) :
       /\ a.channels[k].name = b.channels[k].name
       /\ a.channels[k].data_type = b.channels[k].data_type
       /\ a.channels[k].bit_offset = b.channels[k].bit_offset
       /\ a.channels[k].byte_offset = b.channels[k].byte_offset
       /\ a.channels[k].bit_count = b.channels[k].bit_count
       /\ a.channels[k].channel_type = b.channels[k].channel_type

\* The loop over other_groups: a group joins the first collected group with
\* an equal layout, or is pushed behind the collected groups.
RECURSIVE MergeGroups(_, _)
MergeGroups(groups, other_groups) ==
  IF Len(other_groups) = 0 THEN groups
  ELSE
    LET og == Head(other_groups)
        hits == {i \in 1..Len(groups) : metas_equal(groups[i].meta, og.meta)}
    IN IF hits # {}
       THEN LET g1 == CHOOSE i \in hits : \A j \in hits : i <= j
            IN MergeGroups(
                 [groups EXCEPT ![g1].data =
                    [k \in 1..Len(@) |-> @[k] \o og.data[k]]],
                 Tail(other_groups))
       ELSE MergeGroups(Append(groups, og), Tail(other_groups))

\* The channel block the closure of merge_files configures.
MergedChannel(meta) ==
  [NoChannel EXCEPT !.channel_type = meta.channel_type,
                    !.data_type = meta.data_type,
                    !.bit_offset = meta.bit_offset,
                    !.byte_offset = meta.byte_offset,
                    !.bit_count = meta.bit_count,
                    !.name_len = meta.name]

RECURSIVE MergeChannels(_, _, _, _, _)
MergeChannels(w, group, cg_id, last_cn, k) ==
  IF k > Len(group.meta.channels) THEN w
  ELSE Then(add_channel_configured(
              w, cg_id, last_cn, CnBlock(MergedChannel(group.meta.channels[k])),
              group.meta.channels[k].name),
            LAMBDA x : MergeChannels(x, group, cg_id, x.ret, k + 1))

RECURSIVE MergeRecords(_, _, _, _)
MergeRecords(w, group, cg_id, i) ==
  LET record_count == IF Len(group.data) = 0 THEN 0 ELSE Len(group.data[1])
  IN IF i > record_count THEN w
     ELSE Then(write_record(w, cg_id, <<"rec", i>>,
                            [k \in 1..Len(group.data) |-> group.data[k][i]]),
               LAMBDA x : MergeRecords(x, group, cg_id, i + 1))

\* The body of `for group in groups` behind add_channel_group.
WriteGroupData(w, group, cg_id) ==
  Then(Then(Then(MergeChannels(w, group, cg_id, None, 1),
    LAMBDA x : start_data_block_for_cg(x, cg_id, group.meta.record_id_len)),
    LAMBDA x : MergeRecords(x, group, cg_id, 1)),
    LAMBDA x : finish_data_block(x, cg_id))

WriteGroup(w, group) ==
  Then(add_channel_group_implicit(w, None), LAMBDA x :
    WriteGroupData(x, group, x.ret))

RECURSIVE WriteGroups(_, _, _)
WriteGroups(w, groups, g) ==
  IF g > Len(groups) THEN w
  ELSE Then(WriteGroup(w, groups[g]), LAMBDA x : WriteGroups(x, groups, g + 1))

\* merge_files(output, first, second), `first` given by what collect_groups
\* finds in it and `second` being the file written so far.
merge_files(first) ==
  IF ~Parses THEN Fail(NewWriter, ParseError)
  ELSE IF CollectPanics THEN Fail(NewWriter, Panic)
  ELSE Then(init_mdf_file(NewWriter), LAMBDA x :
         WriteGroups(x, MergeGroups(first, collect_groups), 1))

\* Layouts and contents of the first file of a merge.
MetaOf(t) ==
  [name |-> IF t.named THEN 4 ELSE 0, data_type |-> t.data_type,
   bit_offset |-> 0, byte_offset |-> t.gap, bit_count |-> t.bit_count,
   channel_type |-> t.channel_type]

Collected(t, vs) ==
  [meta |-> [record_id_len |-> 0, channels |-> <<MetaOf(t)>>],
   data |-> <<[i \in 1..Len(vs) |-> [variant |-> "UnsignedInteger", v |-> vs[i]]]>>]

\* One first file holds a group of each layout, the other two groups of the
\* same layout.
FirstFiles ==
  LET m == CHOOSE t \in SourceTemplates : t.channel_type = 2
      v == CHOOSE t \in SourceTemplates : t.channel_type = 0
  IN { <<Collected(m, <<101, 102>>), Collected(v, <<201>>)>>,
       <<Collected(v, <<201>>), Collected(v, <<202, 203>>)>> }

MergeFiles(first) ==
  /\ finalized
  /\ output = <<>>
  /\ Transformed(merge_files(first), "merge",
                 [first |-> first,
                  second |-> IF Parses THEN collect_groups ELSE <<>>])

NextMerge ==
  \/ WriteSource
  \/ \E first \in FirstFiles : MergeFiles(first)

SpecMerge == Init /\ [][NextMerge]_vars

(* ------------------------ conversion application ----------------------- *)
\* f64 values that are whole numbers (below 2^31 in magnitude), -0.0 and NaN.
F64(n) == [variant |-> "Float", v |-> n]
NegZero == [variant |-> "Float-0.0", v |-> 0]
NaN == [variant |-> "FloatNaN", v |-> 0]
UnsignedInteger(n) == [variant |-> "UnsignedInteger", v |-> n]
SignedInteger(n) == [variant |-> "SignedInteger", v |-> n]
\* DecodedValue::String holding the text of the TX block at `addr`.
String(addr) == [variant |-> "String", v |-> addr]
NotNumeric == [variant |-> "None", v |-> 0]
IsFloat(x) == x.variant \in {"Float", "Float-0.0", "FloatNaN"}

\* a * b and a + b of f64 (round to nearest), and a == b
IsNegative(x) == x = NegZero \/ x.v < 0
FMul(a, b) ==
  IF a = NaN \/ b = NaN THEN NaN
  ELSE IF a.v * b.v # 0 THEN F64(a.v * b.v)
  ELSE IF IsNegative(a) # IsNegative(b) THEN NegZero ELSE F64(0)
FAdd(a, b) ==
  IF a = NaN \/ b = NaN THEN NaN
  ELSE IF a.v + b.v # 0 THEN F64(a.v + b.v)
  ELSE IF a = NegZero /\ b = NegZero THEN NegZero ELSE F64(0)
FEq(a, b) == a # NaN /\ b # NaN /\ a.v = b.v

\* ConversionBlock::extract_numeric
extract_numeric(value) ==
  IF IsFloat(value) THEN value
  ELSE IF value.variant \in {"UnsignedInteger", "SignedInteger"} THEN F64(value.v)
  ELSE NotNumeric

\* slice.iter().position(|&k| k == raw), from 0, or `none`
RECURSIVE Position(_, _, _, _)
Position(cc_val, raw, i, none) ==
  IF i > Len(cc_val) THEN none
  ELSE IF FEq(cc_val[i], raw) THEN i - 1
  ELSE Position(cc_val, raw, i + 1, none)

\* The second text block of the mapped file.
Tx2At == TxAt + 32

ConversionBlock(cc_type, cc_val, cc_ref) ==
  [cc_type |-> cc_type, cc_val |-> cc_val, cc_ref |-> cc_ref]

\* BlockHeader::from_bytes(&file_data[off..off+24]).id
HeaderIdAt(in, off) ==
  IF off \in DOMAIN in.cc THEN "##CC"
  ELSE IF off \in {TxAt, Tx2At} THEN "##TX" ELSE "##XX"

\* read_string_block(file_data, link): the text of a ##TX block.
read_string_block(in, link) == String(link)

\* ConversionBlock::apply_decoded on the block `self`, with `file_data` a
\* slice of data_len bytes; `path` holds the addresses of the blocks whose
\* application is in progress.
RECURSIVE apply_decoded(_, _, _, _, _)
apply_value_to_text(in, self, value, data_len, path) ==
  LET raw == extract_numeric(value)
      idx == Position(self.cc_val, raw, 1, Len(self.cc_val))
      link == IF idx + 1 <= Len(self.cc_ref) THEN self.cc_ref[idx + 1] ELSE 0
  IN IF raw = NotNumeric THEN value
     ELSE IF link = 0 THEN Unknown
     ELSE IF link + HeaderLen > data_len THEN Unknown
     ELSE IF HeaderIdAt(in, link) = "##TX" THEN read_string_block(in, link)
     ELSE IF HeaderIdAt(in, link) = "##CC"
       THEN IF link \in path THEN StackOverflow
            ELSE apply_decoded(in, in.cc[link], value, data_len, path \cup {link})
     ELSE Unknown

\* The Linear arm with the parameters taken in the wrong order.
apply_linear_swapped(self, value) ==
  LET raw == extract_numeric(value)
  IN IF raw = NotNumeric THEN value
     ELSE IF Len(self.cc_val) >= 2
       THEN FAdd(self.cc_val[2], FMul(self.cc_val[1], raw))
     ELSE raw

apply_linear(self, value) ==
  LET raw == extract_numeric(value)
  IN IF raw = NotNumeric THEN value
     ELSE IF Len(self.cc_val) >= 2
       THEN FAdd(self.cc_val[1], FMul(self.cc_val[2], raw))
     ELSE raw

apply_decoded(in, self, value, data_len, path) ==
  CASE self.cc_type = "Identity" -> value
    [] self.cc_type = "Linear" -> apply_linear(self, value)
    [] self.cc_type = "ValueToText" ->
         apply_value_to_text(in, self, value, data_len, path)
    [] OTHER -> value

\* Links a reference of a conversion block may hold.
RefLinks == {0, TxAt, Tx2At, OtherAt, BehindFile, CcAt(1), CcAt(2)}
Keys == {<<>>, <<F64(1)>>, <<F64(1), F64(2)>>}

\* Conversion blocks: identity, linear with 1, 2 or 0 parameters, value to
\* text with n keys and n + 1 references.
Conversions ==
  {ConversionBlock("Identity", <<>>, <<>>)}
  \cup {ConversionBlock("Linear", p, <<>>) :
          p \in {<<F64(0), F64(1)>>, <<F64(1), F64(2)>>, <<F64(1)>>}}
  \cup UNION {{ConversionBlock("ValueToText", k, [i \in 1..Len(k) |-> TxAt] \o <<d>>) :
                 d \in RefLinks} : k \in Keys}

DecodedValues ==
  {UnsignedInteger(0), UnsignedInteger(1), UnsignedInteger(5), SignedInteger(-1),
   F64(1), F64(5), NegZero, NaN, String(TxAt), Unknown}

\* A mapped file with the channel's conversion block at CcAt(1) and a
\* second conversion block at CcAt(2), and the decoded value of a record.
ApplyInputs ==
  {[file_len |-> BehindFile, cc |-> (CcAt(1) :> c1) @@ (CcAt(2) :> c2), value |-> v] :
     c1 \in Conversions,
     c2 \in {c \in Conversions : c.cc_type # "ValueToText" \/ Len(c.cc_val) = 0},
     v \in DecodedValues}

InitApply ==
  /\ WriterInit
  /\ input \in ApplyInputs
  /\ iter = None
  /\ output = <<>>

\* ChannelBlock::apply_conversion_value: the whole mapped file is passed.
ApplyConversionValue ==
  /\ output = <<>>
  /\ output' = <<apply_decoded(input, input.cc[CcAt(1)], input.value,
                               input.file_len, {CcAt(1)})>>
  /\ iter' = "mmap"
  /\ UNCHANGED input
  /\ WriterIdle

\* MdfIndex::read_regular_channel_values: an empty slice is passed.
IndexApplyConversion ==
  /\ output = <<>>
  /\ output' = <<apply_decoded(input, input.cc[CcAt(1)], input.value, 0, {CcAt(1)})>>
  /\ iter' = "index"
  /\ UNCHANGED input
  /\ WriterIdle

NextApply == ApplyConversionValue \/ IndexApplyConversion

SpecApply == InitApply /\ [][NextApply]_vars

(* ---------------- one data group with two channel groups --------------- *)
\* The first channel of a group, built from a template.
FirstChannel(t) ==
  [channel_type |-> t.channel_type, sync_type |-> t.sync_type,
   data |-> 0, data_type |-> t.data_type,
   bit_offset |-> 0, byte_offset |-> t.gap, bit_count |-> t.bit_count,
   name_len |-> IF t.named THEN 4 ELSE 0]

\* The writer after init_mdf_file, add_data_group, two add_channel_group
\* calls on the data group and one add_channel call on each group, as
\* examples/multi_dt_example.rs makes them.
TwoGroups(t0, t1) ==
  Then(Then(Then(Then(Then(init_mdf_file(NewWriter),
    LAMBDA x : add_data_group(x, None)),
    LAMBDA x : add_channel_group(x, <<"dg", 0>>, None)),
    LAMBDA x : add_channel(x, <<"cg", 0>>, None, FirstChannel(t0))),
    LAMBDA x : add_channel_group(x, <<"dg", 0>>, <<"cg", 0>>)),
    LAMBDA x : add_channel(x, <<"cg", 1>>, None, FirstChannel(t1)))

InitGroups ==
  \E t0, t1 \in ChannelTemplates :
    \E w \in {TwoGroups(t0, t1)} :
       /\ file = w.file
       /\ blk = w.blk
       /\ offset = w.offset
       /\ cursor = w.cursor
       /\ block_positions = w.block_positions
       /\ open_dts = w.open_dts
       /\ dt_counter = w.dt_counter
       /\ patches = w.patches
       /\ corrupt = w.corrupt
       /\ result = w.err
       /\ dgs = << <<"dg", 0>> >>
       /\ cgs = (<<"dg", 0>> :> << <<"cg", 0>>, <<"cg", 1>> >>)
       /\ cns = (<<"cg", 0>> :> <<[id |-> <<"cn", 0>>, ch |-> FirstChannel(t0)]>>)
                  @@ (<<"cg", 1>> :> <<[id |-> <<"cn", 1>>, ch |-> FirstChannel(t1)]>>)
       /\ written = <<>>
       /\ closed = <<>>
       /\ seq = 0
       /\ starts = 0
       /\ finalized = FALSE
       /\ ops = 0
       /\ link_calls = 0
       /\ input = None
       /\ iter = None
       /\ output = <<>>

\* A record that lacks its last value.
Short(r) == [r EXCEPT !.values = SubSeq(@, 1, Len(@) - 1)]

\* Bookkeeping of the caller after a batch that the writer refuses: the
\* call and the records it handed over are counted although it failed.
Refused(w, n) ==
  /\ file' = w.file
  /\ blk' = w.blk
  /\ offset' = w.offset
  /\ cursor' = w.cursor
  /\ block_positions' = w.block_positions
  /\ open_dts' = w.open_dts
  /\ dt_counter' = w.dt_counter
  /\ patches' = w.patches
  /\ corrupt' = w.corrupt
  /\ result' = w.err
  /\ ops < MaxOps
  /\ ops' = ops + 1
  /\ seq' = seq + n
  /\ UNCHANGED <<dgs, cgs, cns, written, closed, starts, finalized, link_calls>>
  /\ UNCHANGED fn_vars

\* write_records with a batch whose last record lacks a value.
WriteRecordsShort(cg, n) ==
  /\ ~finalized
  /\ seq + n <= MaxWrites
  /\ LET recs == [i \in 1..n |-> IF i = n THEN Short(RecordFor(cg, seq + i))
                                  ELSE RecordFor(cg, seq + i)]
     IN \E w \in {write_records(Writer, cg, recs)} : Refused(w, n)

\* write_records_u64 with a batch whose last record lacks a value.
WriteRecordsU64Short(cg, n) ==
  /\ ~finalized
  /\ seq + n <= MaxWrites
  /\ LET recs == [i \in 1..n |-> IF i = n THEN Short(RecordU64For(cg, seq + i))
                                  ELSE RecordU64For(cg, seq + i)]
     IN \E w \in {write_records_u64(Writer, cg, recs)} : Refused(w, n)

NextGroups ==
  \/ \E cg \in AllCgs, rid \in RecordIdLens : StartDataBlock(cg, rid)
  \/ \E cg \in AllCgs : WriteRecord(cg)
  \/ \E cg \in AllCgs : WriteRecordU64(cg)
  \/ \E cg \in AllCgs, n \in 1..MaxBatch : WriteRecords(cg, n)
  \/ \E cg \in AllCgs, n \in 1..MaxBatch : WriteRecordsU64(cg, n)
  \/ \E cg \in AllCgs, n \in 1..MaxBatch : WriteRecordsShort(cg, n)
  \/ \E cg \in AllCgs, n \in 1..MaxBatch : WriteRecordsU64Short(cg, n)
  \/ \E cg \in AllCgs : FinishDataBlock(cg)
  \/ Finalize

SpecGroups == InitGroups /\ [][NextGroups]_vars

(* ------------------------- walks along next links ----------------------- *)
MaxWalkBlocks == 2

\* A chain of n blocks of one kind in the mapped file: block i links to
\* block i + 1, the last block's next link is `last`: null, a block of the
\* chain (a link that points back), or a block of another kind.
WrongKind == MaxWalkBlocks + 2
ChainShapes ==
  {[n |-> n, last |-> l] : n \in 0..MaxWalkBlocks, l \in 0..MaxWalkBlocks \cup {WrongKind}}
Chains == {c \in ChainShapes : c.last \in 0..c.n \cup {WrongKind}}

FirstOf(chain) == IF chain.n = 0 THEN chain.last ELSE 1
NextOf(chain, addr) == IF addr < chain.n THEN addr + 1 ELSE chain.last

Returned == [kind |-> "Ok"]
WalkError == [kind |-> "Err"]
\* The loop comes back to an address in the state it had there before, so
\* it repeats for ever: the call gives neither Ok nor Err.
NeverReturns == [kind |-> "Loops"]

\* `while addr != 0 { from_bytes(&mmap[addr..])?; body; addr = next }`:
\* `seen` holds the addresses the loop has been at, the code keeps none.
RECURSIVE WalkChain(_, _, _, _)
WalkChain(chain, addr, seen, body) ==
  IF addr = 0 THEN Returned
  ELSE IF addr = WrongKind THEN WalkError
  ELSE IF body # Returned THEN body
  ELSE IF addr \in seen THEN NeverReturns
  ELSE WalkChain(chain, NextOf(chain, addr), seen \cup {addr}, body)

\* ChannelGroupBlock::read_channels
read_channels(in) == WalkChain(in.cn, FirstOf(in.cn), {}, Returned)

\* MdfFile::parse_from_file: the channel groups of every data group, the
\* channels of every channel group.
ReadChannelGroups(in) == WalkChain(in.cg, FirstOf(in.cg), {}, read_channels(in))
parse_from_file(in) == WalkChain(in.dg, FirstOf(in.dg), {}, ReadChannelGroups(in))

\* MdfIndex::extract_data_blocks: the ##DL blocks behind the data link.
ExtractDataBlocks(in) == WalkChain(in.dl, FirstOf(in.dl), {}, Returned)

\* MdfIndex::from_file: parse, then the data blocks of every channel group.
IndexFromFile(in) ==
  LET mdf == parse_from_file(in)
  IN IF mdf # Returned THEN mdf
     ELSE IF in.dg.n = 0 \/ in.cg.n = 0 THEN Returned
     ELSE ExtractDataBlocks(in)

WalkInputs == {[dg |-> d, cg |-> g, cn |-> n, dl |-> l] :
                 d \in Chains, g \in Chains, n \in Chains, l \in Chains}

InitWalk ==
  /\ WriterInit
  /\ input \in WalkInputs
  /\ iter = {}
  /\ output = <<>>

\* MDF::from_file
MdfFromFile ==
  /\ "mdf" \notin iter
  /\ iter' = iter \cup {"mdf"}
  /\ output' = Append(output, [call |-> "mdf", r |-> parse_from_file(input)])
  /\ UNCHANGED input
  /\ WriterIdle

MdfIndexFromFile ==
  /\ "index" \notin iter
  /\ iter' = iter \cup {"index"}
  /\ output' = Append(output, [call |-> "index", r |-> IndexFromFile(input)])
  /\ UNCHANGED input
  /\ WriterIdle

NextWalk == MdfFromFile \/ MdfIndexFromFile

SpecWalk == InitWalk /\ [][NextWalk]_vars

(* ------------------------- Python writer wrapper ------------------------ *)
MaxPyCalls == 7
MaxPyIds == 2

PyOk(value) == [ok |-> TRUE, v |-> value]
PyErr(message) == [ok |-> FALSE, v |-> message]
\* MdfException::new_err(text); a writer error keeps its <<kind, text, id>>.
MdfException(text) == <<"MdfException", text, None>>

\* MdfWriter::set_time_channel: channel_type = 2 (master), sync_type = 1.
set_time_channel(w, cn_id) ==
  IF ~Registered(w, cn_id) THEN Fail(w, <<"BlockLinkError", "Block", cn_id>>)
  ELSE [w EXCEPT !.blk[w.block_positions[cn_id]].ch.channel_type = 2,
                 !.blk[w.block_positions[cn_id]].ch.sync_type = 1]

\* PyMdfWriter::new: `some` tells whether `writer` is Some(writer); after
\* take() the field is None and `writer` is what the writer left behind.
\* `ret` is what the last call returned to Python.
PyMdfWriter ==
  [writer |-> NewWriter, some |-> TRUE, channel_groups |-> <<>>,
   channels |-> <<>>, last_channels |-> <<>>, next_id |-> 0, ret |-> PyOk(None)]

\* `writer.op()?; Ok(value)`
PyReturn(self, w, value) ==
  [self EXCEPT !.writer = [w EXCEPT !.err = Ok, !.ret = 0],
               !.ret = IF w.err = Ok THEN PyOk(value) ELSE PyErr(w.err)]

HasBeenFinalized(self) ==
  [self EXCEPT !.ret = PyErr(MdfException("Writer has been finalized"))]
NotFound(self, what) == [self EXCEPT !.ret = PyErr(MdfException(what))]

py_init_mdf_file(self) ==
  IF self.some THEN PyReturn(self, init_mdf_file(self.writer), None)
  ELSE HasBeenFinalized(self)

py_add_channel_group(self) ==
  IF self.some
  THEN LET py_id == <<"cg_", self.next_id>>
       IN CHOOSE r \in
            {IF w.err # Ok THEN PyReturn(self, w, None)
             ELSE [PyReturn(self, w, py_id) EXCEPT
                     !.next_id = @ + 1,
                     !.channel_groups = (py_id :> w.ret) @@ @] :
               w \in {add_channel_group_implicit(self.writer, None)}} : TRUE
  ELSE HasBeenFinalized(self)

\* The channel the closure of add_channel configures: data type, name and
\* the default bit count of the data type.
PyChannel(data_type) ==
  [NoChannel EXCEPT !.data_type = data_type, !.bit_count = 32, !.name_len = 4]

PrevChannelId(self, group_id) ==
  IF group_id \in DOMAIN self.last_channels
       /\ self.last_channels[group_id] \in DOMAIN self.channels
  THEN self.channels[self.last_channels[group_id]]
  ELSE None

\* py_add_channel without the test of self.writer.
py_add_channel_unguarded(self, group_id, data_type) ==
  IF group_id \notin DOMAIN self.channel_groups
  THEN NotFound(self, "Channel group not found")
  ELSE LET py_id == <<"ch_", self.next_id>>
       IN CHOOSE r \in
            {IF w.err # Ok THEN PyReturn(self, w, None)
             ELSE [PyReturn(self, w, py_id) EXCEPT
                     !.next_id = @ + 1,
                     !.channels = (py_id :> w.ret) @@ @,
                     !.last_channels = (group_id :> py_id) @@ @] :
               w \in {add_channel_configured(
                        self.writer, self.channel_groups[group_id],
                        PrevChannelId(self, group_id),
                        CnBlock(PyChannel(data_type)),
                             PyChannel(data_type).name_len)}} : TRUE

py_add_channel(self, group_id, data_type) ==
  IF self.some
  THEN IF group_id \notin DOMAIN self.channel_groups
       THEN NotFound(self, "Channel group not found")
       ELSE LET py_id == <<"ch_", self.next_id>>
            IN CHOOSE r \in
                 {IF w.err # Ok THEN PyReturn(self, w, None)
                  ELSE [PyReturn(self, w, py_id) EXCEPT
                          !.next_id = @ + 1,
                          !.channels = (py_id :> w.ret) @@ @,
                          !.last_channels = (group_id :> py_id) @@ @] :
                    w \in {add_channel_configured(
                             self.writer, self.channel_groups[group_id],
                             PrevChannelId(self, group_id),
                             CnBlock(PyChannel(data_type)),
                             PyChannel(data_type).name_len)}} : TRUE
  ELSE HasBeenFinalized(self)

py_set_time_channel(self, channel_id) ==
  IF self.some
  THEN IF channel_id \notin DOMAIN self.channels
       THEN NotFound(self, "Channel not found")
       ELSE PyReturn(self, set_time_channel(self.writer, self.channels[channel_id]),
                     None)
  ELSE HasBeenFinalized(self)

py_start_data_block(self, group_id) ==
  IF self.some
  THEN IF group_id \notin DOMAIN self.channel_groups
       THEN NotFound(self, "Channel group not found")
       ELSE PyReturn(self, start_data_block_for_cg(
                             self.writer, self.channel_groups[group_id], 0), None)
  ELSE HasBeenFinalized(self)

py_write_record(self, group_id, tag, vals) ==
  IF self.some
  THEN IF group_id \notin DOMAIN self.channel_groups
       THEN NotFound(self, "Channel group not found")
       ELSE PyReturn(self, write_record(self.writer, self.channel_groups[group_id],
                                        tag, vals), None)
  ELSE HasBeenFinalized(self)

py_finish_data_block(self, group_id) ==
  IF self.some
  THEN IF group_id \notin DOMAIN self.channel_groups
       THEN NotFound(self, "Channel group not found")
       ELSE PyReturn(self, finish_data_block(self.writer,
                                             self.channel_groups[group_id]), None)
  ELSE HasBeenFinalized(self)

\* self.writer.take(), then MdfWriter::finalize flushes the file.
py_finalize(self) ==
  IF self.some THEN [self EXCEPT !.some = FALSE, !.ret = PyOk(None)]
  ELSE [self EXCEPT !.ret = PyErr(MdfException("Writer already finalized"))]

\* Ids a Python caller may pass: the ones it was given and one it was not.
UnknownPyId == <<"id_", 0>>
PyGroupIds == DOMAIN iter.channel_groups \cup {UnknownPyId}
PyChannelIds == DOMAIN iter.channels \cup {UnknownPyId}
PyValues(group_id) ==
  IF group_id \in DOMAIN iter.channel_groups
       /\ iter.channel_groups[group_id] \in DOMAIN iter.writer.cg_channels
  THEN [k \in 1..Len(iter.writer.cg_channels[iter.channel_groups[group_id]]) |->
          [variant |-> "UnsignedInteger", v |-> 10 * (input + 1) + k]]
  ELSE <<>>

InitPy ==
  /\ WriterInit
  /\ input = 0
  /\ iter = PyMdfWriter
  /\ output = <<>>

\* One call from Python: `input` counts the calls, `output` names the last.
PyCall(name, self) ==
  /\ input < MaxPyCalls
  /\ input' = input + 1
  /\ iter' = self
  /\ output' = <<name>>
  /\ WriterIdle

\* A caller initializes once and stays within MaxPyIds ids while the writer
\* is there; without a writer every call is tried.
PyInitMdfFile ==
  /\ iter.some => HdBlockId \notin DOMAIN iter.writer.block_positions
  /\ PyCall("init_mdf_file", py_init_mdf_file(iter))

PyAddChannelGroup ==
  /\ iter.some => iter.next_id < MaxPyIds
  /\ PyCall("add_channel_group", py_add_channel_group(iter))

PyAddChannel(group_id) ==
  /\ iter.some => iter.next_id < MaxPyIds
  /\ PyCall("add_channel", py_add_channel(iter, group_id, "UnsignedIntegerLE"))

PySetTimeChannel(channel_id) ==
  PyCall("set_time_channel", py_set_time_channel(iter, channel_id))

PyStartDataBlock(group_id) ==
  PyCall("start_data_block", py_start_data_block(iter, group_id))

PyWriteRecord(group_id) ==
  PyCall("write_record",
         py_write_record(iter, group_id, <<"rec", input + 1>>, PyValues(group_id)))

PyFinishDataBlock(group_id) ==
  PyCall("finish_data_block", py_finish_data_block(iter, group_id))

PyFinalize == PyCall("finalize", py_finalize(iter))

NextPy ==
  \/ PyInitMdfFile
  \/ PyAddChannelGroup
  \/ \E g \in PyGroupIds : PyAddChannel(g)
  \/ \E c \in PyChannelIds : PySetTimeChannel(c)
  \/ \E g \in PyGroupIds : PyStartDataBlock(g)
  \/ \E g \in PyGroupIds : PyWriteRecord(g)
  \/ \E g \in PyGroupIds : PyFinishDataBlock(g)
  \/ PyFinalize

SpecPy == InitPy /\ [][NextPy]_vars

(* ------------------------------ claims --------------------------------- *)
Addr(id) == block_positions[id]

\* The values the caller wrote to channel k of a group since its last start.
WrittenTo(cg, k) == [i \in 1..Len(written[cg]) |-> written[cg][i].values[k]]

\* The channels a group had when its records were written.
ChannelsWritten(cg) ==
  IF Len(written[cg]) = 0 THEN {} ELSE 1..Len(written[cg][1].values)

Finished == DOMAIN closed

\* C1: after finalize, the records written to a channel group between
\* start_data_block and finish_data_block are read back by the record
\* iterator and the decoder, the same values in the same order.
C1_RoundTrip ==
  finalized =>
    \A cg \in Finished : \A k \in ChannelsWritten(cg) :
      values(Addr(ParentOf(cg)), Addr(cg), Addr(cns[cg][k].id)) = WrittenTo(cg, k)

\* C2: in a file the writer produced (every data block finished, writer
\* finalized), values() of every channel returns as many values as the
\* cycle count stored in the channel's group.
C2_ValuesCountIsCycleCount ==
  (finalized /\ DOMAIN open_dts = {}) =>
    \A g \in 1..Len(ChannelGroups) :
      LET dg == ChannelGroups[g].dg
          cg == ChannelGroups[g].cg
          c == ParsedCns(cg)
      IN \A j \in 1..Len(c) :
           /\ ~DividesByZero(dg, cg)
           /\ Len(values(dg, cg, c[j])) = Link(cg, CgCyclesOffset)

\* C3: when a data block is finished, exactly one DL block is emitted and
\* the data group's data link points at it if the record bytes written for
\* the group exceed 4 MiB - 24; otherwise no DL is emitted.
C3_DlIffBytesExceed ==
  \A cg \in Finished :
    LET i == closed[cg]
    IN IF i.bytes > MAX_DT_BLOCK_SIZE - HeaderLen
       THEN /\ Cardinality(i.new_dls) = 1
            /\ \A d \in i.new_dls : i.dg_data = Addr(d)
       ELSE i.new_dls = {}

\* The record bytes appended for the DT block at `dt`, summed over the
\* first n extents of the file.
RECURSIVE RecordBytesUpTo(_, _)
RecordBytesUpTo(dt, n) ==
  IF n = 0 THEN 0
  ELSE RecordBytesUpTo(dt, n - 1)
         + (IF file[n].kind = "rec" /\ file[n].owner = dt THEN file[n].len ELSE 0)
RecordBytesOf(dt) == RecordBytesUpTo(dt, Len(file))

DtBlocks == {b \in DOMAIN blk : blk[b].kind = "##DT"}

\* C4: no DT fragment exceeds 4 MiB including its 24-byte header, neither
\* by the bytes written for it nor by its declared length.
C4_NoDtExceedsMax ==
  \A dt \in DtBlocks :
    /\ HeaderLen + RecordBytesOf(dt) <= MAX_DT_BLOCK_SIZE
    /\ blk[dt].block_len <= MAX_DT_BLOCK_SIZE

AddrsOf(ids) == [i \in 1..Len(ids) |-> Addr(ids[i])]

C6_BlocksAligned ==
  \A i \in 1..Len(file) :
    /\ file[i].kind = "block" => file[i].pos % 8 = 0
    /\ file[i].kind = "pad" =>
         /\ file[i].len < 8 /\ file[i].fields = <<>>
         /\ i < Len(file) /\ file[i + 1].kind = "block"

\* A block that follows a record whose size is no multiple of 8.
C6_Witness ==
  \E i \in 3..Len(file) :
    /\ file[i].kind = "block" /\ file[i - 1].kind = "pad"
    /\ file[i - 2].kind = "rec" /\ file[i - 2].len % 8 # 0
    /\ file[i].pos % 8 = 0

\* The DT blocks records may still be appended to.
OpenDtBlocks == {open_dts[cg].start_pos : cg \in DOMAIN open_dts}

\* C7: the declared length of every block the writer completed, DT blocks
\* with a patched length included, is a multiple of 8 and covers all bytes
\* emitted for the block.
C7_BlockLenCoversAndAligned ==
  \A b \in DOMAIN blk \ OpenDtBlocks :
    blk[b].kind # "ID" =>
      /\ blk[b].block_len % 8 = 0
      /\ blk[b].block_len >= blk[b].size
      /\ \A i \in 1..Len(file) :
           (file[i].kind = "rec" /\ file[i].owner = b) =>
             file[i].pos + file[i].len <= b + blk[b].block_len

\* C8: every back-patch wrote inside a block that was already written when
\* the patch was made and below the append offset of that moment, and no
\* write landed anywhere but at the end of the file or in a patched field.
C8_PatchesInsideWrittenBlocks ==
  /\ ~corrupt
  /\ \A p \in patches :
       /\ p.pos + p.width <= p.eof
       /\ \E i \in 1..Len(file) :
            /\ file[i].kind = "block"
            /\ file[i].pos <= p.pos
            /\ p.pos + p.width <= file[i].pos + file[i].len
            /\ file[i].pos + file[i].len <= p.eof

\* Patches of a link, a block length, a cycle count, a record size and a
\* record-id length have all been made.
C8_Witness ==
  /\ \A w \in {1, 4, 8} : \E p \in patches : p.width = w
  /\ \E cg \in Finished : Len(closed[cg].fragments) > 1
  /\ C8_PatchesInsideWrittenBlocks

\* C10: for every group and channel of a file, reading the channel through
\* the index, built from the file or loaded back from its serialized form,
\* yields the same sequence of values as values() on that channel.
C10_IndexReadEqualsValues ==
  \A g \in 1..Len(ChannelGroups) :
    LET dg == ChannelGroups[g].dg
        cg == ChannelGroups[g].cg
        c == ParsedCns(cg)
    IN ~DividesByZero(dg, cg) =>
         \A j \in 1..Len(c) :
           /\ read_channel_values(from_file, g, j) = values(dg, cg, c[j])
           /\ read_channel_values(load_from_file(save_to_file(from_file)), g, j)
                = values(dg, cg, c[j])

NothingWritten ==
  /\ file' = file /\ blk' = blk /\ offset' = offset /\ cursor' = cursor
  /\ patches' = patches /\ block_positions' = block_positions

\* C9: update_block_link with a source or target id that was never
\* registered fails with a block-link error naming the missing block, and
\* the call writes nothing to the file.
C9_UnregisteredLinkFails ==
  [][\A s \in LinkIds, t \in LinkIds, o \in LinkOffsets :
       UpdateBlockLinkCall(s, o, t) =>
         IF s \notin DOMAIN block_positions
         THEN result' = <<"BlockLinkError", "Source", s>> /\ NothingWritten
         ELSE IF t \notin DOMAIN block_positions
         THEN result' = <<"BlockLinkError", "Target", t>> /\ NothingWritten
         ELSE result' = Ok]_vars

\* A call with a registered source and an unregistered target has failed on
\* a file that already holds blocks.
C9_Witness ==
  /\ result[1] = "BlockLinkError" /\ result[2] = "Target"
  /\ result[3] \notin DOMAIN block_positions
  /\ Len(dgs) > 0

\* Total length of a list of <<offset, length>> ranges.
RECURSIVE TotalLen(_)
TotalLen(r) == IF Len(r) = 0 THEN 0 ELSE r[1][2] + TotalLen(Tail(r))

\* File position of byte `off` of the concatenation of the ranges, when the
\* nb bytes from there on come from one range; -1 otherwise.
RECURSIVE ConcatPos(_, _, _)
ConcatPos(r, off, nb) ==
  IF Len(r) = 0 THEN -1
  ELSE IF off < r[1][2]
    THEN (IF off + nb <= r[1][2] THEN r[1][1] + off ELSE -1)
  ELSE ConcatPos(Tail(r), off - r[1][2], nb)

\* The first n values of the channel decoded from the concatenated ranges,
\* one value per NumBytes(channel) bytes.
DecodeConcat(r, channel, n) ==
  [i \in 1..n |->
     LET p == ConcatPos(r, (i - 1) * NumBytes(channel), NumBytes(channel))
     IN IF p < 0 THEN Raw(p) ELSE BytesAt(p, NumBytes(channel), channel)]

\* C11: for every channel of a finished file, the bytes of the ranges of
\* get_channel_byte_ranges, concatenated and decoded as the channel's values,
\* are the sequence values() returns for the channel.
C11_RangesDecodeToValues ==
  (finalized /\ DOMAIN open_dts = {}) =>
    \A g \in 1..Len(ChannelGroups) :
      LET dg == ChannelGroups[g].dg
          cg == ChannelGroups[g].cg
          c == ParsedCns(cg)
      IN ~DividesByZero(dg, cg) =>
           \A j \in 1..Len(c) :
             LET r == get_channel_byte_ranges(from_file, g, j)
                 v == values(dg, cg, c[j])
                 ch == from_file.channel_groups[g].channels[j]
             IN /\ r.err = Ok
                /\ TotalLen(r.ranges) = Len(v) * NumBytes(ch)
                /\ DecodeConcat(r.ranges, ch, Len(v)) = v

\* The records of an indexed group as the index counts them: the file
\* position of each record, fragment after fragment.
IndexRecords(group) ==
  LET rs == group.record_id_len + group.record_size
      b == group.data_blocks
  IN Flatten([i \in 1..Len(b) |->
                Chunks(b[i].file_offset + HeaderLen, b[i].size - HeaderLen, rs)])

InRanges(r, pos, len) ==
  \E i \in 1..Len(r) : r[i][1] <= pos /\ pos + len <= r[i][1] + r[i][2]

MeetsRanges(r, pos, len) ==
  \E i \in 1..Len(r) : r[i][1] < pos + len /\ pos < r[i][1] + r[i][2]

\* C12: for every channel of a finished file and every record sub-range
\* inside the group's record count, the ranges of
\* get_channel_byte_ranges_for_records lie inside the payloads of the
\* group's fragments, hold the channel's bytes of every requested record
\* and hold no byte of a record outside the sub-range.
C12_SubRangeBytes ==
  (finalized /\ DOMAIN open_dts = {}) =>
    \A g \in 1..Len(from_file.channel_groups) :
      LET group == from_file.channel_groups[g]
          rs == group.record_id_len + group.record_size
          recs == IndexRecords(group)
      IN ~RangesDivideByZero(group) =>
           \A j \in 1..Len(group.channels) :
             \A start \in 0..group.record_count :
               \A count \in 0..(group.record_count - start) :
                 LET res == get_channel_byte_ranges_for_records(
                              from_file, g, j, start, count)
                     r == res.ranges
                     ch == group.channels[j]
                 IN /\ res.err = Ok
                    /\ \A i \in 1..Len(r) :
                         \E k \in 1..Len(group.data_blocks) :
                           LET b == group.data_blocks[k]
                           IN /\ b.file_offset + HeaderLen <= r[i][1]
                              /\ r[i][1] + r[i][2] <= b.file_offset + b.size
                    /\ \A n \in 1..Len(recs) :
                         IF start < n /\ n <= start + count
                         THEN InRanges(r, recs[n] + group.record_id_len + ch.byte_offset,
                                       NumBytes(ch))
                         ELSE ~MeetsRanges(r, recs[n], rs)

\* Tags of the records appended for the DT block at `dt` among the first n
\* extents of the file, in file order.
RECURSIVE RecsUpTo(_, _)
RecsUpTo(dt, n) ==
  IF n = 0 THEN <<>>
  ELSE RecsUpTo(dt, n - 1)
         \o (IF file[n].kind = "rec" /\ file[n].owner = dt THEN <<file[n].id>> ELSE <<>>)
RecsOf(dt) == RecsUpTo(dt, Len(file))

IsOverrun(item) == item.kind = "Err" /\ item.error[1] = "TooShortBuffer"
                     /\ item.error[3] > item.error[2]

\* C18: once the VLSD iterator has yielded the too-short-buffer error for a
\* length prefix that overruns its SD block, every later call yields
\* nothing.
C18_OverrunEndsIteration ==
  \A i \in 1..Len(output) :
    IsOverrun(output[i]) => \A j \in (i + 1)..Len(output) : output[j] = ItemNone

\* Following the nested-conversion links from `addr` leads back to a block
\* already seen.
RECURSIVE Revisits(_, _, _)
Revisits(in, addr, seen) ==
  IF addr \notin DOMAIN in.cc_ref THEN FALSE
  ELSE IF addr \in seen THEN TRUE
  ELSE \E i \in 1..Len(in.cc_ref[addr]) :
         Revisits(in, in.cc_ref[addr][i], seen \cup {addr})

ConversionChainCycle == [kind |-> "Err", texts |-> {}, conversions |-> <<>>]

\* C19: resolving the conversion chain of a block always terminates with a
\* result, and when the chain leads back to a block address already visited
\* the result is the conversion-chain-cycle error.
C19_CycleDetected ==
  output # <<>> =>
    /\ output[1].kind \in {"Ok", "Err"}
    /\ Revisits(input, input.start, {}) => output[1] = ConversionChainCycle

\* Position (from 1) of the invalidation byte of the input's channel.
InvalBytePos ==
  input.record_id_size + input.cg_data_bytes + input.pos_invalidation_bit \div 8 + 1

\* C20: a value is invalid whenever flag bit 0 is set, valid whenever flag
\* bits 0 and 1 are both clear, and otherwise invalid exactly when bit
\* (pos_invalidation_bit & 7) of the byte at record_id_len + record_bytes +
\* (pos_invalidation_bit >> 3) is set, valid when the record has no such byte.
C20_Validity ==
  output # <<>> =>
    LET valid == output[1]
        bit0 == input.flags % 2 = 1
        bit1 == (input.flags \div 2) % 2 = 1
    IN /\ bit0 => ~valid
       /\ (~bit0 /\ ~bit1) => valid
       /\ (~bit0 /\ bit1) =>
            IF InvalBytePos <= Len(input.record)
            THEN valid <=> (input.record[InvalBytePos]
                              \div Pow2(input.pos_invalidation_bit % 8)) % 2 = 0
            ELSE valid

\* The invalidation bit decided: it is set in a byte behind a record id and
\* data bytes, while the byte the same position selects at the start of the
\* data bytes has it clear.
C20_Witness ==
  /\ output = <<FALSE>>
  /\ input.flags = 2
  /\ input.record_id_size = 1 /\ input.cg_data_bytes = 1
  /\ input.pos_invalidation_bit = 10
  /\ input.record = <<0, 0, 0, 4>>
  /\ C20_Validity

\* The channels of a source group that are its master channel.
MastersOf(g) ==
  {k \in 1..Len(g.channels) : g.channels[k].channel_type = 2
                               /\ g.channels[k].sync_type = 1}

\* Indices of the records with t >= t0 that come before the first record
\* with t > t1, in order.
RECURSIVE KeptIndices(_, _, _, _)
KeptIndices(ts, i, t0, t1) ==
  IF i > Len(ts) \/ ts[i].v > t1 THEN <<>>
  ELSE (IF ts[i].v >= t0 THEN <<i>> ELSE <<>>) \o KeptIndices(ts, i + 1, t0, t1)

\* The values the reader finds in group g of the file, channel by channel.
GroupData(g) ==
  LET c == ParsedCns(ChannelGroups[g].cg)
  IN [k \in 1..Len(c) |-> values(ChannelGroups[g].dg, ChannelGroups[g].cg, c[k])]

\* C13: for a source group with a master channel (sync_type 1), the
\* destination of a completed cut-by-time holds exactly the source records with t >= t0
\* that come before the first record with t > t1, in source order.
C13_CutKeepsRecordsInRange ==
  (output = <<"cut">> /\ result = Ok) =>
    \A g \in 1..Len(input.groups) :
      LET src == input.groups[g]
      IN MastersOf(src) # {} =>
           LET m == CHOOSE k \in MastersOf(src) : TRUE
               kept == KeptIndices(src.data[m], 1, input.start_time, input.end_time)
           IN (\A i \in 1..Len(src.data[m]) : IsNumber(src.data[m][i])) =>
                /\ g <= Len(ChannelGroups)
                /\ GroupData(g) = [k \in 1..Len(src.channels) |->
                                     [i \in 1..Len(kept) |-> src.data[k][kept[i]]]]

\* C14: a group without a master channel is copied wholesale by a
\* completed cut-by-time: the destination group has the source group's records, in
\* the same order and with the same channel values, whatever t0 and t1 are.
C14_CutCopiesGroupsWithoutMaster ==
  (output = <<"cut">> /\ result = Ok) =>
    \A g \in 1..Len(input.groups) :
      LET src == input.groups[g]
      IN MastersOf(src) = {} =>
           /\ g <= Len(ChannelGroups)
           /\ GroupData(g) = src.data
           /\ Link(ChannelGroups[g].cg, CgCyclesOffset) = src.cycles

\* The layout signature of a collected group: the channel count and, per
\* channel, name, storage type, bit offset, byte offset, bit count and
\* channel type.
Signature(group) == group.meta.channels

RecordCount(group) == IF Len(group.data) = 0 THEN 0 ELSE Len(group.data[1])

\* The records of a group as tuples of channel values.
RecordSet(data) ==
  IF Len(data) = 0 THEN {}
  ELSE {[k \in 1..Len(data) |-> data[k][i]] : i \in 1..Len(data[1])}

\* The signature of group d of the file.
FileSignature(d) ==
  LET c == ParsedCns(ChannelGroups[d].cg)
  IN [k \in 1..Len(c) |-> ChannelMeta(c[k])]

\* C15: when a group of file 1 and a group of file 2 have equal layout
\* signatures, the destination of a completed merge has a group whose
\* records are those of file 1's group followed by those of file 2's group,
\* each in its original order, with the sum of both as cycle count.
C15_MergeConcatenatesEqualLayouts ==
  (output = <<"merge">> /\ result = Ok) =>
    \A i \in 1..Len(input.first), j \in 1..Len(input.second) :
      Signature(input.first[i]) = Signature(input.second[j]) =>
        \E d \in 1..Len(ChannelGroups) :
          /\ GroupData(d) = [k \in 1..Len(input.first[i].data) |->
                               input.first[i].data[k] \o input.second[j].data[k]]
          /\ Link(ChannelGroups[d].cg, CgCyclesOffset)
               = RecordCount(input.first[i]) + RecordCount(input.second[j])

\* C16: a group of file 2 whose layout signature equals that of no group
\* collected before it is a group of its own in the destination of a
\* completed merge, holding all and only its own records; and no
\* destination group holds a record of a source group with another
\* signature.
C16_MergeAppendsUnmatchedGroups ==
  (output = <<"merge">> /\ result = Ok) =>
    /\ \A j \in 1..Len(input.second) :
         ( /\ \A i \in 1..Len(input.first) :
                Signature(input.first[i]) # Signature(input.second[j])
           /\ \A i \in 1..(j - 1) :
                Signature(input.second[i]) # Signature(input.second[j]) )
         => \E d \in 1..Len(ChannelGroups) :
              /\ FileSignature(d) = Signature(input.second[j])
              /\ GroupData(d) = input.second[j].data
    /\ \A d \in 1..Len(ChannelGroups) :
         \A f \in {"first", "second"} : \A i \in 1..Len(input[f]) :
           Signature(input[f][i]) # FileSignature(d) =>
             RecordSet(input[f][i].data) \cap RecordSet(GroupData(d)) = {}
\* The application studied: a value-to-text block, a numeric input, and no
\* key of cc_val equal to it.
NoKeyMatch ==
  LET self == input.cc[CcAt(1)]
      raw == extract_numeric(input.value)
  IN /\ output # <<>>
     /\ self.cc_type = "ValueToText"
     /\ raw # NotNumeric
     /\ \A i \in 1..Len(self.cc_val) : ~FEq(self.cc_val[i], raw)

\* C21: a value-to-text conversion applied to a numeric input equal to none
\* of the keys returns the text of the default reference (the last one), and
\* Unknown when the default link is null.
C21_DefaultReference ==
  NoKeyMatch =>
    LET default == Last(input.cc[CcAt(1)].cc_ref)
    IN /\ default = 0 => output[1] = Unknown
       /\ default \in {TxAt, Tx2At} => output[1] = String(default)
IsNumeric(value) == extract_numeric(value) # NotNumeric

\* A linear conversion with parameters [0, 1] was applied to a numeric value.
LinearZeroOne ==
  /\ output # <<>>
  /\ input.cc[CcAt(1)] = ConversionBlock("Linear", <<F64(0), F64(1)>>, <<>>)
  /\ IsNumeric(input.value)

IdentityResult ==
  apply_decoded(input, ConversionBlock("Identity", <<>>, <<>>), input.value,
                input.file_len, {})

\* C22 as stated: Linear with parameters [0, 1] applied to a numeric decoded
\* value gives the result Identity gives.
C22_LinearZeroOneIsIdentity == LinearZeroOne => output[1] = IdentityResult

\* C22 amended: Linear with [0, 1] returns a Float holding the value
\* converted to f64; for a Float input other than NaN it compares equal to
\* the input, which is what Identity returns; an integer input comes back as
\* a Float while Identity returns the integer.
C22_LinearZeroOneIsFloatOfValue ==
  LinearZeroOne =>
    /\ IsFloat(output[1])
    /\ IdentityResult = input.value
    /\ input.value # NaN => FEq(output[1], extract_numeric(input.value))
    /\ input.value = NaN => output[1] = NaN
    /\ output[1] = IdentityResult => IsFloat(input.value)
    /\ IsFloat(input.value) /\ input.value # NegZero => output[1] = IdentityResult

C22_Witness ==
  /\ LinearZeroOne
  /\ input.value = UnsignedInteger(5)
  /\ output[1] = F64(5)
\* C23: for every DT fragment of a finished channel group, the bytes from
\* fragment start + 24 up to the fragment's patched length are exactly the
\* records written to the fragment, contiguous and in write order, whatever
\* else was appended while the data block was open.
C23_FragmentBytesAreItsRecords ==
  \A cg \in Finished : \A i \in 1..Len(closed[cg].fragments) :
    LET dt == closed[cg].fragments[i]
    IN /\ blk[dt].block_len = HeaderLen + RecordBytesOf(dt)
       /\ \A n \in 1..Len(file) :
            (file[n].kind = "rec" /\ file[n].owner = dt) =>
              file[n].pos = dt + HeaderLen + RecordBytesUpTo(dt, n - 1)
\* The fragments a reader reaches from the data link of a data group.
Reachable(dg) == {DataBlocks(Addr(dg))[i] : i \in 1..Len(DataBlocks(Addr(dg)))}

\* C24: the data link of a data group leads the reader to the records of
\* every finished channel group of the data group: no start_data_block,
\* rollover or finish_data_block of another group takes them away.
C24_DataLinkReachesEveryGroup ==
  \A cg \in Finished : \A i \in 1..Len(closed[cg].fragments) :
    RecsOf(closed[cg].fragments[i]) # <<>> =>
      closed[cg].fragments[i] \in Reachable(ParentOf(cg))
\* C25: start_data_block on a channel group that already has an open data
\* block fails with an error and changes neither the file contents, the
\* append offset nor the open-block state, so a group never has more than
\* one open data block.
C25_SecondStartFails ==
  [][\A cg \in AllCgs, rid \in RecordIdLens :
       (IsOpen(Writer, cg) /\ StartDataBlock(cg, rid)) =>
         /\ result' = AlreadyOpen
         /\ UNCHANGED <<file, blk, offset, cursor, block_positions, open_dts,
                        dt_counter, patches>>]_vars

\* A start_data_block call on a group with an open data block has returned.
C25_Witness ==
  /\ result = AlreadyOpen
  /\ DOMAIN open_dts # {}
  /\ DtBlocks # {}
\* Nothing of the file or of the writer's bookkeeping changes.
WriterUntouched ==
  UNCHANGED <<file, blk, offset, cursor, block_positions, open_dts,
              dt_counter, patches>>

\* A call on cg that writes records or finishes its data block.
DataCall(cg) ==
  \/ WriteRecord(cg)
  \/ WriteRecordU64(cg)
  \/ \E n \in 1..MaxBatch : WriteRecords(cg, n)
  \/ \E n \in 1..MaxBatch : WriteRecordsU64(cg, n)
  \/ FinishDataBlock(cg)

\* C26: write_record, write_record_u64, write_records, write_records_u64
\* and finish_data_block on a group without an open data block fail with an
\* error and change nothing, and a finish_data_block that succeeds closes
\* the block, so a second finish or a later record write fails.
C26_DataCallsNeedOpenBlock ==
  [][\A cg \in AllCgs :
       /\ (~IsOpen(Writer, cg) /\ DataCall(cg)) =>
            (result' = NoOpenDt /\ WriterUntouched)
       /\ (FinishDataBlock(cg) /\ result' = Ok) => cg \notin DOMAIN open_dts']_vars

\* A call on a group whose data block had been finished has failed.
C26_Witness ==
  /\ result = NoOpenDt
  /\ Finished # {}
  /\ AllCgs = Finished
  /\ DOMAIN open_dts = {}
\* C27: whatever record writes failed, the record count of every open data
\* block is the number of records present in the file for its current
\* fragment, and their bytes are record_size times that count; a failing
\* record, also one in the middle of a batch, is neither written nor counted.
C27_RecordCountIsRecordsPresent ==
  \A cg \in DOMAIN open_dts :
    /\ open_dts[cg].record_count = Len(RecsOf(open_dts[cg].start_pos))
    /\ RecordBytesOf(open_dts[cg].start_pos)
         = open_dts[cg].record_size * open_dts[cg].record_count
\* C28: every back-patch leaves the append position where it was: after
\* each call the file handle stands at the append offset, which is the end
\* of the file, what was appended after a patch starts at the offset the
\* writer had when the patch was made, and every extent starts where the
\* one before it ends, so no append overwrote earlier bytes.
C28_PatchKeepsAppendPosition ==
  /\ cursor = offset
  /\ offset = EndOf(file)
  /\ ~corrupt
  /\ \A i \in 1..Len(file) :
       file[i].pos = IF i = 1 THEN 0 ELSE file[i - 1].pos + file[i - 1].len
  /\ \A p \in patches :
       p.eof = EndOf(file) \/ \E i \in 1..Len(file) : file[i].pos = p.eof

\* Patches of all three widths were made and a record and a block were
\* appended behind them.
C28_Witness ==
  /\ \A w \in {1, 4, 8} : \E p \in patches : p.width = w
  /\ \E i, j \in 1..Len(file) :
       /\ file[i].kind = "rec" /\ file[j].kind = "block"
       /\ \E p \in patches : p.width = 4 /\ p.eof <= file[i].pos /\ p.eof <= file[j].pos
  /\ cursor = offset

\* C29: parsing and indexing a file end with a result or an error, also
\* when a next link of the DG, CG, CN or DL chain points back to a block
\* that was already visited.
C29_WalksTerminate ==
  \A i \in 1..Len(output) : output[i].r.kind \in {"Ok", "Err"}

\* C30: in the Python wrapper, once finalize was called every later call of
\* init_mdf_file, add_channel_group, add_channel, set_time_channel,
\* start_data_block, write_record and finish_data_block fails with
\* 'Writer has been finalized' and leaves the underlying writer and the
\* wrapper's tables as they were, and a later finalize fails with
\* 'Writer already finalized'.
C30_FinalizedWrapperRefuses ==
  [][~iter.some =>
       /\ iter' = [iter EXCEPT !.ret = iter'.ret]
       /\ iter'.ret = PyErr(MdfException(IF output'[1] = "finalize"
                                         THEN "Writer already finalized"
                                         ELSE "Writer has been finalized"))]_vars

\* A wrapper finalized with a data block open has refused a record.
C30_Witness ==
  /\ ~iter.some
  /\ DOMAIN iter.writer.open_dts # {}
  /\ output = <<"write_record">>
  /\ iter.ret = PyErr(MdfException("Writer has been finalized"))

====
